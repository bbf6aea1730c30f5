----------------------------- MODULE Predicate -----------------------------
(***************************************************************************)
(* From Ray's expressions to the WHERE clause of a read: compile_predicate *)
(* (_predicate.py), DorisPredicate.and_with (_models.py), the trusted      *)
(* filter and build_read_sql (_sql.py).  Flight and the query-plan service *)
(* get literals; PyMySQL gets placeholders and interpolates the whole text.*)
(*                                                                         *)
(* An expression is the sequence of its nodes, operands first.  SQL is a   *)
(* sequence of symbols; a reference evaluator reads it the way Doris does, *)
(* with precedence, quotes and comments, in three-valued logic.            *)
(***************************************************************************)
EXTENDS Integers, Sequences, SequencesExt, FiniteSetsExt, TLC

CONSTANTS
    Filters,        \* texts of the trusted filter; <<>> stands for None
    Leaves,         \* comparisons and null checks of Ray expressions
    MaxNodes,       \* bound on the nodes of the expressions of one read
    MaxDepth,       \* depth visit() goes to, 64 in the code
    BitWidth,       \* width of the integer column
    MaxPredicates,  \* bound on the predicates pushed into one read
    Null

Comparisons == {"=", "!=", "<", "<=", ">", ">="}
NullChecks == {"IS NULL", "IS NOT NULL"}
ColumnType == [id |-> "int", active |-> "bool", text |-> "string"]
Ints == -(2^BitWidth)..(2^BitWidth)
InWidth(v) == v \in -(2^(BitWidth - 1))..(2^(BitWidth - 1) - 1)
Quote == "quote"
Backslash == "backslash"

ASSUME PredicateAssumption ==
    /\ MaxNodes \in Nat /\ MaxDepth \in Nat /\ BitWidth \in Nat \ {0} /\ MaxPredicates \in Nat
    /\ \A l \in Leaves : l.op \in Comparisons \cup NullChecks

VARIABLES
    filter,     \* the filter the user gives
    config,     \* "new", "ready" or "refused": whether the configuration was accepted
    expr,       \* the expression Ray is building
    pushed,     \* the expressions the datasource accepted
    predicate,  \* config.predicate
    sent        \* the query a reader executes

vars == <<filter, config, expr, pushed, predicate, sent>>

NoPredicate == [mysql |-> <<>>, parameters |-> <<>>, literal |-> <<>>]
NoQuery == [form |-> "none", sql |-> <<>>, parameters |-> <<>>]

Init ==
    /\ filter \in Filters /\ config = "new"
    /\ expr = <<>> /\ pushed = <<>> /\ predicate = NoPredicate /\ sent = NoQuery

-----------------------------------------------------------------------------
(* Expressions.                                                            *)

\* The values of an expression's subexpressions, on a stack.
Stack(nodes, Leaf(_), Not(_), Junction(_, _, _)) ==
    LET stack[i \in 0..Len(nodes)] ==
            LET s == stack[i - 1]
                n == Len(s)
            IN  IF i = 0 THEN <<>>
                ELSE IF nodes[i].op = "NOT" THEN SubSeq(s, 1, n - 1) \o <<Not(s[n])>>
                ELSE IF nodes[i].op \in {"AND", "OR"}
                     THEN SubSeq(s, 1, n - 2) \o <<Junction(nodes[i].op, s[n - 1], s[n])>>
                ELSE Append(s, Leaf(nodes[i]))
    IN  stack[Len(nodes)]

\* How many levels of AND, OR and NOT an expression has.
Depth(nodes) ==
    LET Leaf(node) == 0
        Not(d) == d + 1
        Junction(op, d, e) == 1 + Max({d, e})
    IN  Stack(nodes, Leaf, Not, Junction)[1]

\* Three-valued logic.
Not3(v) == CASE v = "true" -> "false" [] v = "false" -> "true" [] OTHER -> v
Junction3(op, v, w) ==
    LET absorbing == IF op = "AND" THEN "false" ELSE "true"
    IN  IF absorbing \in {v, w} THEN absorbing ELSE IF "null" \in {v, w} THEN "null" ELSE v
Truth(b) == IF b THEN "true" ELSE "false"

Compare3(op, v, w) ==
    IF Null \in {v, w} THEN "null"
    ELSE Truth(CASE op = "=" -> v = w [] op = "!=" -> v # w [] op = "<" -> v < w
                 [] op = "<=" -> v <= w [] op = ">" -> v > w [] op = ">=" -> v >= w)

\* A row: an integer, a Boolean (0 or 1) and whether conditions on its text hold.
Rows == [id : {v \in Ints : InWidth(v)} \cup {Null}, active : {0, 1, Null},
         text : {"true", "false", "null"}]

\* What Ray's own Filter makes of an expression.
Meaning(nodes, row) ==
    LET Operand(o) == IF o.column = "none" THEN o.literal ELSE row[o.column]
        Leaf(node) == CASE node.left.column = "text" -> row.text
                        [] node.op = "IS NULL" -> Truth(Operand(node.left) = Null)
                        [] node.op = "IS NOT NULL" -> Truth(Operand(node.left) # Null)
                        [] OTHER -> Compare3(node.op, Operand(node.left), Operand(node.right))
    IN  Stack(nodes, Leaf, Not3, Junction3)[1]

-----------------------------------------------------------------------------
(* compile_predicate.                                                      *)

Reversed == [op \in Comparisons |->
    CASE op = "<" -> ">" [] op = "<=" -> ">=" [] op = ">" -> "<" [] op = ">=" -> "<=" [] OTHER -> op]

\* Mutant: an operator stays as it is when its operands are swapped.
SwappedKeeps(op) == op

Swapped(op) == Reversed[op]

Symbol(type, v) ==
    IF type = "bool" THEN (IF v = 1 THEN "TRUE" ELSE "FALSE") ELSE ToString(v)

Compilable(column) == column # "none" /\ ColumnType[column] \in {"int", "bool"}

CompileLeaf(node) ==
    LET reversed == node.left.column = "none" /\ node.right.column # "none"
        lhs == IF reversed THEN node.right ELSE node.left
        rhs == IF reversed THEN node.left ELSE node.right
        op == IF reversed THEN Swapped(node.op) ELSE node.op
        boolean == ColumnType[lhs.column] = "bool"
    IN  IF ~Compilable(lhs.column) THEN NoPredicate
        ELSE IF node.op \in NullChecks
             THEN [mysql |-> <<lhs.column, node.op>>, parameters |-> <<>>,
                   literal |-> <<lhs.column, node.op>>]
        ELSE IF \/ rhs.column # "none" \/ rhs.type # ColumnType[lhs.column]
                \/ (IF boolean THEN op \notin {"=", "!="} ELSE ~InWidth(rhs.literal))
             THEN NoPredicate
        ELSE [mysql |-> <<lhs.column, op, "%", "s">>, parameters |-> <<rhs.literal>>,
              literal |-> <<lhs.column, op, Symbol(rhs.type, rhs.literal)>>]

Parenthesized(sql) == <<"(">> \o sql \o <<")">>

CompileNot(child) ==
    IF child = NoPredicate THEN NoPredicate
    ELSE [child EXCEPT !.mysql = <<"NOT">> \o Parenthesized(@),
                       !.literal = <<"NOT">> \o Parenthesized(@)]

\* Mutant: a child that does not compile is dropped.
CompileJunctionOfRest(op, left, right) ==
    IF left = NoPredicate THEN right ELSE IF right = NoPredicate THEN left
    ELSE [mysql |-> Parenthesized(left.mysql) \o <<op>> \o Parenthesized(right.mysql),
          parameters |-> left.parameters \o right.parameters,
          literal |-> Parenthesized(left.literal) \o <<op>> \o Parenthesized(right.literal)]

CompileJunction(op, left, right) ==
    IF NoPredicate \in {left, right} THEN NoPredicate
    ELSE [mysql |-> Parenthesized(left.mysql) \o <<op>> \o Parenthesized(right.mysql),
          parameters |-> left.parameters \o right.parameters,
          literal |-> Parenthesized(left.literal) \o <<op>> \o Parenthesized(right.literal)]

CompilePredicate(nodes) ==
    IF Depth(nodes) > MaxDepth THEN NoPredicate
    ELSE Stack(nodes, CompileLeaf, CompileNot, CompileJunction)[1]

\* Mutant: the parameters of the new predicate come first.
AndWithReversed(first, second) ==
    [CompileJunction("AND", first, second) EXCEPT
        !.parameters = second.parameters \o first.parameters]

\* DorisPredicate.and_with
AndWith(first, second) == CompileJunction("AND", first, second)

-----------------------------------------------------------------------------
(* The trusted filter and the query.                                       *)

\* The positions of a text that are outside of quotes; 0 stands for an open quote.
Unquoted(text) ==
    LET n == Len(text)
        from[i \in 1..(n + 2), open \in BOOLEAN] ==
            IF i > n THEN IF open THEN {0} ELSE {}
            ELSE IF ~open
                 THEN IF text[i] = Quote THEN from[i + 1, TRUE] ELSE {i} \cup from[i + 1, FALSE]
            ELSE IF text[i] = Backslash THEN from[i + 2, TRUE]
            ELSE IF text[i] # Quote THEN from[i + 1, TRUE]
            ELSE IF i < n /\ text[i + 1] = Quote THEN from[i + 2, TRUE]
            ELSE from[i + 1, FALSE]
    IN  from[1, FALSE]

\* Mutant: comments are refused anywhere.
DisallowedAnywhere(text) == 0 \in Unquoted(text) \/ \E i \in DOMAIN text : text[i] = "--"

\* _has_disallowed_filter_token
Disallowed(text) == 0 \in Unquoted(text) \/ \E i \in Unquoted(text) : text[i] = "--"

\* DorisReadConfig validates the filter, and every read does so again.
Configure ==
    /\ config = "new"
    /\ config' = IF Disallowed(filter) THEN "refused" ELSE "ready"
    /\ UNCHANGED <<filter, expr, pushed, predicate, sent>>

\* str.replace("%", "%%")
Doubled(text) ==
    LET from[i \in 1..(Len(text) + 1)] ==
            IF i > Len(text) THEN <<>>
            ELSE (IF text[i] = "%" THEN <<"%", "%">> ELSE <<text[i]>>) \o from[i + 1]
    IN  from[1]

\* Mutant: the filter goes into the template as it is.
TrustedPlain(bind) == filter

\* What of the filter goes into the query: a template only if PyMySQL will read it so.
Trusted(bind) == IF bind /\ predicate.parameters # <<>> THEN Doubled(filter) ELSE filter

\* build_read_sql
BuildReadSql(bind) ==
    LET native == IF bind THEN predicate.mysql ELSE predicate.literal
    IN  IF predicate = NoPredicate THEN filter
        ELSE IF filter = <<>> THEN native
        ELSE Parenthesized(Trusted(bind)) \o <<"AND">> \o Parenthesized(native)

Read(form) ==
    /\ config = "ready" /\ sent = NoQuery /\ expr = <<>>
    /\ sent' = [form |-> form, sql |-> BuildReadSql(form = "mysql"),
                parameters |-> IF form = "mysql" THEN predicate.parameters ELSE <<>>]
    /\ UNCHANGED <<filter, config, expr, pushed, predicate>>

-----------------------------------------------------------------------------
(* Ray builds an expression and offers it.                                 *)

Open(nodes) ==
    LET Leaf(node) == 0
        Not(v) == 0
        Junction(op, v, w) == 0
    IN  Len(Stack(nodes, Leaf, Not, Junction))

\* The node has its operands, and the bound leaves room to complete the expression.
Build(node) ==
    /\ config = "ready" /\ sent = NoQuery /\ Len(pushed) < MaxPredicates
    /\ CASE node.op = "NOT" -> Open(expr) > 0
         [] node.op \in {"AND", "OR"} -> Open(expr) > 1
         [] OTHER -> TRUE
    /\ Len(expr) + Open(Append(expr, node)) + FoldSeq(LAMBDA e, n : Len(e) + n, 0, pushed)
           <= MaxNodes
    /\ expr' = Append(expr, node)
    /\ UNCHANGED <<filter, config, pushed, predicate, sent>>

\* DorisDatasource.apply_predicate: what does not compile stays with Ray.
ApplyPredicate ==
    /\ expr # <<>> /\ Open(expr) = 1
    /\ LET compiled == CompilePredicate(expr)
       IN  IF compiled = NoPredicate THEN UNCHANGED <<pushed, predicate>>
           ELSE /\ pushed' = Append(pushed, expr)
                /\ predicate' = IF predicate = NoPredicate THEN compiled
                                ELSE AndWith(predicate, compiled)
    /\ expr' = <<>>
    /\ UNCHANGED <<filter, config, sent>>

Over == (config = "refused" \/ sent # NoQuery) /\ UNCHANGED vars

Next ==
    \/ Configure \/ ApplyPredicate \/ Over
    \/ \E node \in Leaves \cup {[op |-> op] : op \in {"NOT", "AND", "OR"}} : Build(node)
    \/ \E form \in {"mysql", "flight"} : Read(form)

Spec == Init /\ [][Next]_vars

-----------------------------------------------------------------------------
(* PyMySQL and Doris, which are external.                                  *)

\* template % parameters; an integer is written as one, a Boolean as 0 or 1.
Interpolate(template, parameters) ==
    LET n == Len(template)
        from[i \in 1..(n + 2), p \in 1..(Len(parameters) + 1)] ==
            IF i > n THEN IF p > Len(parameters) THEN <<>> ELSE <<"error">>
            ELSE IF template[i] # "%" THEN <<template[i]>> \o from[i + 1, p]
            ELSE IF i = n THEN <<"error">>
            ELSE IF template[i + 1] = "%" THEN <<"%">> \o from[i + 2, p]
            ELSE IF template[i + 1] = "s" /\ p <= Len(parameters)
                 THEN <<ToString(parameters[p])>> \o from[i + 2, p + 1]
            ELSE <<"error">>
    IN  from[1, 1]

Received(query) ==
    IF query.parameters = <<>> THEN query.sql ELSE Interpolate(query.sql, query.parameters)

Constant(symbol) ==
    CASE symbol = "TRUE" -> 1 [] symbol = "FALSE" -> 0
      [] OTHER -> IF \E v \in Ints : ToString(v) = symbol
                  THEN CHOOSE v \in Ints : ToString(v) = symbol ELSE Null

\* One condition: a null check, a comparison, or a condition on the text, which has
\* to be the user's own to the letter.
Condition(text, row) ==
    IF text[1] = "text"
    THEN IF \E i, j \in DOMAIN filter : i <= j /\ SubSeq(filter, i, j) = text
         THEN row.text ELSE "error"
    ELSE IF text[1] \notin {"id", "active"} THEN "error"
    ELSE IF Len(text) = 2
         THEN CASE text[2] = "IS NULL" -> Truth(row[text[1]] = Null)
                [] text[2] = "IS NOT NULL" -> Truth(row[text[1]] # Null)
                [] OTHER -> "error"
    ELSE IF Len(text) = 3 /\ text[2] \in Comparisons /\ Constant(text[3]) # Null
         THEN Compare3(text[2], row[text[1]], Constant(text[3]))
    ELSE "error"

\* A WHERE clause: OR binds weakest, then AND, then NOT; a comment ends the text.
Where(received, row) ==
    LET comments == {i \in Unquoted(received) \ {0} : received[i] = "--"}
        text == IF comments = {} THEN received ELSE SubSeq(received, 1, Min(comments) - 1)
        code == Unquoted(text)
        Level(i, j) == Quantify(code \cap (i..j), LAMBDA k : text[k] = "(")
                       - Quantify(code \cap (i..j), LAMBDA k : text[k] = ")")
        value[i \in 1..(Len(text) + 1), j \in 0..Len(text)] ==
            LET top(op) == {k \in code \cap (i..j) : text[k] = op /\ Level(i, k) = 0}
                split(op) == LET k == Max(top(op)) IN Junction3(op, value[i, k - 1], value[k + 1, j])
            IN  IF i > j THEN "error"
                ELSE IF top("OR") # {} THEN split("OR")
                ELSE IF top("AND") # {} THEN split("AND")
                ELSE IF text[i] = "NOT" THEN Not3(value[i + 1, j])
                ELSE IF text[i] = "(" /\ text[j] = ")" THEN value[i + 1, j - 1]
                ELSE Condition(SubSeq(text, i, j), row)
    IN  IF text = <<>> THEN "true"
        ELSE IF 0 \in code \/ Level(1, Len(text)) # 0 THEN "error"
        ELSE value[1, Len(text)]

-----------------------------------------------------------------------------
(* Correctness.                                                            *)

\* Every placeholder has its parameter, and literals need none.
TypeOK ==
    /\ filter \in Filters /\ config \in {"new", "ready", "refused"}
    /\ expr \in Seq(Leaves \cup {[op |-> op] : op \in {"NOT", "AND", "OR"}})
    /\ Len(pushed) <= MaxPredicates
    /\ Len(predicate.parameters) = Quantify(DOMAIN predicate.mysql, LAMBDA i : predicate.mysql[i] = "%")
    /\ \A i \in DOMAIN predicate.literal : predicate.literal[i] # "%"
    /\ sent.form \in {"none", "mysql", "flight"}

\* A read returns the rows the filter keeps, as Doris understands it, and every pushed
\* expression keeps, as Ray does: Ray no longer filters them.  Precedence, nulls,
\* placeholders and percent signs of the filter do not change that in either form.
DorisKeepsRaysRows ==
    /\ TypeOK
    /\ sent # NoQuery =>
          LET received == Received(sent)
          IN  \A row \in Rows :
                  (Where(received, row) = "true") =
                      /\ Where(filter, row) = "true"
                      /\ \A i \in DOMAIN pushed : Meaning(pushed[i], row) = "true"

\* A filter is refused only if the query cannot hold it: in parentheses it takes the
\* rest of the query with it.
RefusedWouldBreak ==
    config = "refused" => \A row \in Rows : Where(Parenthesized(filter), row) = "error"
=============================================================================
