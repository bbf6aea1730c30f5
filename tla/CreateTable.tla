---------------------------- MODULE CreateTable ----------------------------
(***************************************************************************)
(* parse_create_table of write/metadata.py: the model, the key columns and *)
(* the Merge-on-Write property, found in the text of SHOW CREATE TABLE by  *)
(* a scanner that knows quotes and parentheses and nothing else of SQL;    *)
(* and the text as Doris renders it.  WriteMetadata gives it to the parser.*)
(*                                                                         *)
(* A text is a sequence of symbols: quotes, backslash, parentheses, comma, *)
(* "=", and words; the two words of a model clause are one symbol and      *)
(* white space is left out.                                                *)
(***************************************************************************)
EXTENDS Naturals, SequencesExt

CONSTANT Error    \* DorisMetadataError

Models == {"DUPLICATE KEY", "UNIQUE KEY", "AGGREGATE KEY"}
Backtick == "backtick"
Single == "single quote"
Double == "double quote"
Backslash == "backslash"
Quotes == {Backtick, Single, Double}

-----------------------------------------------------------------------------
(* Scanning.  Position 0 stands for an unterminated text.                  *)

\* Mutant: a doubled quote ends the quoted text.
QuotedEndUndoubled(text, start) ==
    LET quote == text[start]
        end[i \in (start + 1)..(Len(text) + 2)] ==
            IF i > Len(text) THEN 0
            ELSE IF quote # Backtick /\ text[i] = Backslash THEN end[i + 2]
            ELSE IF text[i] = quote THEN i + 1 ELSE end[i + 1]
    IN  end[start + 1]

\* _quoted_end: the position behind the quoted text that begins at start.
QuotedEnd(text, start) ==
    LET quote == text[start]
        end[i \in (start + 1)..(Len(text) + 2)] ==
            IF i > Len(text) THEN 0
            ELSE IF quote # Backtick /\ text[i] = Backslash THEN end[i + 2]
            ELSE IF text[i] # quote THEN end[i + 1]
            ELSE IF i < Len(text) /\ text[i + 1] = quote THEN end[i + 2]
            ELSE i + 1
    IN  end[start + 1]

\* Mutant: words are looked for in quoted text as well.
FindAnywhere(text, start, words) ==
    LET found == {i \in start..Len(text) : text[i] \in words}
    IN  IF found = {} THEN Len(text) + 1 ELSE CHOOSE i \in found : \A j \in found : i <= j

\* _find_model_clause, _find_properties_clause: the first of the words outside of
\* quotes, or the position behind the text.
Find(text, start, words) ==
    LET find[i \in 0..(Len(text) + 1)] ==
            IF i = 0 \/ i > Len(text) THEN i
            ELSE IF text[i] \in Quotes THEN find[QuotedEnd(text, i)]
            ELSE IF text[i] \in words THEN i ELSE find[i + 1]
    IN  find[start]

\* Mutant: parentheses within quotes count.
ClauseUnquoted(text, start) ==
    LET close[i \in 0..(Len(text) + 1), depth \in 0..Len(text)] ==
            IF i = 0 \/ i > Len(text) THEN 0
            ELSE IF text[i] = "(" THEN close[i + 1, depth + 1]
            ELSE IF text[i] = ")" THEN (IF depth = 1 THEN i ELSE close[i + 1, depth - 1])
            ELSE close[i + 1, depth]
    IN  IF start > Len(text) \/ text[start] # "(" \/ close[start, 0] = 0 THEN Error
        ELSE SubSeq(text, start + 1, close[start, 0] - 1)

\* _find_parenthesized_clause
Clause(text, start) ==
    LET close[i \in 0..(Len(text) + 1), depth \in 0..Len(text)] ==
            IF i = 0 \/ i > Len(text) THEN 0
            ELSE IF text[i] \in Quotes THEN close[QuotedEnd(text, i), depth]
            ELSE IF text[i] = "(" THEN close[i + 1, depth + 1]
            ELSE IF text[i] = ")" THEN (IF depth = 1 THEN i ELSE close[i + 1, depth - 1])
            ELSE close[i + 1, depth]
    IN  IF start > Len(text) \/ text[start] # "(" \/ close[start, 0] = 0 THEN Error
        ELSE SubSeq(text, start + 1, close[start, 0] - 1)

\* str.replace of a doubled quote.
Undoubled(text, quote) ==
    LET rest[i \in 1..(Len(text) + 2)] ==
            IF i > Len(text) THEN <<>>
            ELSE <<text[i]>> \o rest[IF i < Len(text) /\ text[i] = quote /\ text[i + 1] = quote
                                     THEN i + 2 ELSE i + 1]
    IN  rest[1]

-----------------------------------------------------------------------------
(* Keys and properties.                                                    *)

\* _parse_identifier
Identifier(raw) ==
    LET decoded == Undoubled(SubSeq(raw, 2, Len(raw) - 1), Backtick)
    IN  IF raw = <<>> THEN Error
        ELSE IF raw[1] = Backtick
             THEN IF QuotedEnd(raw, 1) # Len(raw) + 1 \/ decoded = <<>> THEN Error ELSE decoded
        ELSE IF \E i \in DOMAIN raw : raw[i] \in Quotes THEN Error ELSE raw

\* _split_key_columns: commas separate keys, but not within backticks.
KeyColumns(raw) ==
    LET split[start \in 1..(Len(raw) + 1), i \in 0..(Len(raw) + 1)] ==
            IF i = 0 THEN <<Error>>
            ELSE IF i > Len(raw) THEN <<Identifier(SubSeq(raw, start, Len(raw)))>>
            ELSE IF raw[i] = Backtick THEN split[start, QuotedEnd(raw, i)]
            ELSE IF raw[i] = "," THEN <<Identifier(SubSeq(raw, start, i - 1))>> \o split[i + 1, i + 1]
            ELSE split[start, i + 1]
    IN  split[1, 1]

\* _property_token: a quoted text without its quotes, or a word; and what follows.
Token(text, start) ==
    IF start > Len(text) THEN Error
    ELSE IF text[start] \in Quotes
         THEN LET end == QuotedEnd(text, start)
                  value == SubSeq(text, start + 1, end - 2)
              IN  IF end = 0 THEN Error
                  ELSE [value |-> IF text[start] = Backtick THEN value
                                  ELSE Undoubled(value, text[start]),
                        end |-> end]
    ELSE IF text[start] \in {"=", ","} THEN Error
    ELSE [value |-> <<text[start]>>, end |-> start + 1]

\* _has_true_mow_property
HasTrueMow(text) ==
    LET from[i \in 1..(Len(text) + 2)] ==
            LET key == Token(text, i)
                value == Token(text, key.end + 1)
            IN  IF i > Len(text) THEN FALSE
                ELSE IF text[i] = "," THEN from[i + 1]
                ELSE IF key = Error THEN Error
                ELSE IF key.end > Len(text) \/ text[key.end] # "=" THEN Error
                ELSE IF value = Error THEN Error
                ELSE IF value.end <= Len(text) /\ text[value.end] # "," THEN Error
                ELSE IF from[value.end] = Error THEN Error
                ELSE from[value.end] \/ (key.value = <<"mow">> /\ value.value = <<"true">>)
    IN  from[1]

\* parse_create_table
ParseCreateTable(text) ==
    LET model == Find(text, 1, Models)
        keys == Clause(text, model + 1)
        columns == KeyColumns(keys)
        properties == Find(text, model + 1, {"PROPERTIES"})
        clause == Clause(text, properties + 1)
        mow == IF properties > Len(text) THEN FALSE ELSE HasTrueMow(clause)
    IN  IF model = 0 \/ model > Len(text) THEN Error
        ELSE IF keys = Error THEN Error
        ELSE IF keys = <<>> THEN Error
        ELSE IF \E i \in DOMAIN columns : columns[i] = Error THEN Error
        ELSE IF properties = 0 THEN Error
        ELSE IF properties <= Len(text) /\ clause = Error THEN Error
        ELSE IF mow = Error THEN Error
        ELSE [model |-> text[model], keys |-> columns, mow |-> mow]

-----------------------------------------------------------------------------
(* What Doris renders.                                                     *)

\* Within quotes, the quote is doubled, or escaped together with the backslash.
Quoted(text, quote, escape) ==
    LET escaped[i \in 1..(Len(text) + 1)] ==
            IF i > Len(text) THEN <<>>
            ELSE (IF text[i] = quote /\ escape = "double" THEN <<quote, quote>>
                  ELSE IF quote # Backtick /\ text[i] \in {quote, Backslash}
                  THEN <<Backslash, text[i]>> ELSE <<text[i]>>) \o escaped[i + 1]
    IN  <<quote>> \o escaped[1] \o <<quote>>

Id(name) == Quoted(name, Backtick, "double")

\* A list of names in parentheses.
Ids(names) ==
    <<"(">> \o FlattenSeq([i \in DOMAIN names |->
                  IF i = 1 THEN Id(names[i]) ELSE <<",">> \o Id(names[i])]) \o <<")">>

\* A table, with comments and values of other properties in a style: what they are,
\* and how this Doris writes a quote within a literal.
Render(table, style) ==
    LET Literal(text) == Quoted(text, Double, style.escape)
        Declared(column) == Id(column.name) \o <<"DECIMAL", "(", "9", ")", "COMMENT">>
                                            \o Literal(style.comment) \o <<",">>
    IN  <<"CREATE TABLE", "t", "(">>
        \o FlattenSeq([i \in DOMAIN table.columns |-> Declared(table.columns[i])])
        \o <<"INDEX", ")", "ENGINE", "=", "OLAP", table.model>> \o Ids(table.keys)
        \o <<"COMMENT">> \o Literal(style.comment)
        \o <<"DISTRIBUTED BY HASH">> \o Ids(table.keys)
        \o <<"PROPERTIES", "(">> \o Literal(<<"other">>) \o <<"=">> \o Literal(style.value)
        \o <<",">> \o Literal(<<"mow">>) \o <<"=">>
        \o Literal(<<IF table.mow THEN "true" ELSE "false">>) \o <<")">>
=============================================================================
