-------------------------- MODULE MCWriteMetadata --------------------------
EXTENDS WriteMetadata

Declaration(name, type, null) == [name |-> name, type |-> type, null |-> null]

\* The names need quoting, and look like something else.
NameK == <<"k", Backtick>>
NameV == <<")", "UNIQUE KEY">>
NameJ == <<",", "k">>

K == Declaration(NameK, "int", FALSE)
V == Declaration(NameV, "int", TRUE)
W == Declaration(NameV, "text", FALSE)
J == Declaration(NameJ, "json", TRUE)

MCTables ==
    {[model |-> "UNIQUE KEY", mow |-> mow, keys |-> <<NameK>>, columns |-> columns] :
        mow \in BOOLEAN, columns \in {<<K, V>>, <<K, W, J>>}}
    \cup {[model |-> "DUPLICATE KEY", mow |-> FALSE, keys |-> keys, columns |-> <<K, V>>] :
              keys \in {<<NameK>>, <<NameK, NameV>>}}
    \cup {[model |-> "AGGREGATE KEY", mow |-> FALSE, keys |-> <<NameV>>, columns |-> <<W, K>>],
          [model |-> "UNIQUE KEY", mow |-> TRUE, keys |-> <<NameK>>,
           columns |-> <<K, Declaration(<<"b">>, "bitmap", TRUE)>>]}

Column(name, kinds) == [name : {name}, kind : kinds, null : BOOLEAN]

MCBlocks ==
    LET keys == Column(NameK, {"small", "huge"})
        values == Column(NameV, {"small", "text", "zoned"})
        jsons == Column(NameJ, {"text", "struct"})
    IN  {<<k>> : k \in keys} \cup {<<k, v>> : k \in keys, v \in values}
        \cup {<<v, k>> : k \in keys, v \in values} \cup {<<k, j>> : k \in keys, j \in jsons}
        \cup {<<k, v, j>> : k \in Column(NameK, {"small"}), v \in values, j \in jsons}
        \cup {<<k, k>> : k \in keys} \cup {<<j>> : j \in jsons}
        \cup {<<k, [v EXCEPT !.name = <<"x">>]>> : k \in keys, v \in values}

\* Comments with keywords, quotes, parentheses and what looks like properties.
MCStyles ==
    [comment : {<<"text">>, <<"UNIQUE KEY", "(", "k", ")">>, <<Double, "PROPERTIES", "(">>,
                <<Single, Backslash>>,
                <<"PROPERTIES", "(", "mow", "=", "true", ")", "DUPLICATE KEY", "(", "x", ")">>},
     value : {<<"1">>, <<")", ",", "mow", "=", "true">>, <<Backslash, Double>>},
     escape : {"double", "backslash"}]

Refusal(why, code, words) == [cause |-> why, code |-> code, words |-> words]

MCRefusals ==
    {Refusal("authentication", 1045, {"access denied", "using password"}),
     Refusal("permission", 1142, {"command denied"}), Refusal("permission", 1044, {"access denied"}),
     Refusal("permission", 1105, {"access denied"}), Refusal("permission", 1105, {"privilege"}),
     Refusal("gone", 1105, {"does not exist"}), Refusal("gone", 1109, {"unknown table"}),
     Refusal("other", 1105, {})}
=============================================================================
