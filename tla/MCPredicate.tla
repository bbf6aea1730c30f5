---------------------------- MODULE MCPredicate ----------------------------
EXTENDS Predicate

Col(name) == [column |-> name, type |-> "none", literal |-> 0]
Lit(type, v) == [column |-> "none", type |-> type, literal |-> v]
Node(op, left, right) == [op |-> op, left |-> left, right |-> right]

MCLeaves ==
    {Node("<", Col("id"), Lit("int", 1)), Node("<=", Lit("int", -2), Col("id")),
     Node("!=", Col("active"), Lit("bool", 1)), Node("IS NULL", Col("active"), Col("none")),
     Node("=", Col("text"), Lit("string", 0))}

MCFilters ==
    {<<>>, <<"id", "=", "0", "OR", "active", "=", "TRUE">>,
     <<"text", "=", Quote, "5", "%", Quote>>,
     <<"text", "=", Quote, "%", "s", "--", Quote, "OR", "id", "<", "0">>,
     <<"text", "=", Quote, Backslash, Quote, "--", Quote>>,
     <<"id", "<", "1", "--", "why">>, <<"text", "=", Quote, "open">>}
=============================================================================
