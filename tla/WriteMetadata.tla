--------------------------- MODULE WriteMetadata ---------------------------
(***************************************************************************)
(* What a write knows of its table (write/metadata.py): the driver reads   *)
(* SHOW CREATE TABLE and then DESCRIBE, on_write_start checks the first    *)
(* schema if Ray has one, and a worker checks and converts each block      *)
(* against that metadata before it is loaded.  Anyone may alter, recreate  *)
(* or drop the table between any two of these steps.                       *)
(*                                                                         *)
(* The answer to SHOW CREATE TABLE is a text, rendered and parsed as       *)
(* CreateTable says.  Names are sequences of symbols.                      *)
(***************************************************************************)
EXTENDS CreateTable, Sequences

CONSTANTS
    Tables,         \* versions of the table
    Styles,         \* comments and properties of its text, and how quotes are escaped
    Blocks,         \* blocks: sequences of columns
    Refusals,       \* errors Doris may answer a request with
    MaxChanges      \* bound on the changes of the table

Operations == {"load", "upsert", "partial_update"}
Types == {"int", "text", "json", "bitmap"}
\* Values of an Arrow column: integers that fit into 32 bits, integers that do not,
\* structs, timestamps with a time zone; "text" is also what other columns convert to.
Kinds == {"small", "huge", "struct", "zoned", "text"}
Causes == {"authentication", "permission", "gone", "other"}
NoTable == [model |-> "none"]

ASSUME WriteMetadataAssumption ==
    /\ \A t \in Tables : /\ t.model \in Models
                         /\ t.mow => t.model = "UNIQUE KEY"
                         /\ ToSet(t.keys) # {}
                         /\ ToSet(t.keys) \subseteq {t.columns[i].name : i \in DOMAIN t.columns}
                         /\ IsInjective([i \in DOMAIN t.columns |-> t.columns[i].name])
                         /\ \A i \in DOMAIN t.columns : t.columns[i].type \in Types
    /\ \A b \in Blocks : \A i \in DOMAIN b :
          b[i] \in [name : {b[i].name}, kind : Kinds, null : BOOLEAN]
    /\ \A r \in Refusals : r.cause \in Causes
    /\ MaxChanges \in Nat

\* What Doris and MySQL say of a refusal: 1045 is ER_ACCESS_DENIED_ERROR, the other
\* codes are those of denied databases, tables, columns and privileges.
LogsIn(r) == r.code = 1045 \/ ("access denied" \in r.words /\ "using password" \in r.words)
Denies(r) ==
    \/ r.code \in {1044, 1142, 1143, 1227}
    \/ \E word \in {"command denied", "permission", "privilege", "access denied"} : word \in r.words

ASSUME DorisSaysWhy ==
    \A r \in Refusals :
        /\ r.cause = "authentication" => LogsIn(r)
        /\ r.cause = "permission" => Denies(r) /\ ~LogsIn(r)
        /\ r.cause \in {"gone", "other"} => ~Denies(r) /\ ~LogsIn(r)

VARIABLES
    table,      \* the table in Doris
    changes,    \* how often it changed
    operation,  \* the operation of the write
    block,      \* the block a worker gets
    step,       \* the next step: "show", "describe", "start", "write", "load", "end"
    metadata,   \* model, keys, mow and columns, as far as they are known
    current,    \* which of the two answers still describe the table
    cause,      \* why Doris refused a request, "none" if it did not
    payload,    \* the block as it is sent, <<>> before
    outcome     \* "none", the class of the error raised, or what Doris did

vars == <<table, changes, operation, block, step, metadata, current, cause, payload, outcome>>

Names(columns) == [i \in DOMAIN columns |-> columns[i].name]
Unknown == [model |-> "none", keys |-> <<>>, mow |-> FALSE, columns |-> <<>>]

Errors == {"metadata", "schema", "compatibility", "authentication", "permission"}

TypeOK ==
    /\ table \in Tables \cup {NoTable} /\ changes \in 0..MaxChanges
    /\ operation \in Operations /\ block \in Blocks
    /\ step \in {"show", "describe", "start", "write", "load", "end"}
    /\ metadata = Unknown <=> step = "show" \/ (current = {} /\ outcome \in Errors /\ metadata = Unknown)
    /\ step \in {"start", "write", "load"} => metadata.columns # <<>>
    /\ current \subseteq {"create", "describe"}
    /\ cause \in Causes \cup {"none"}
    /\ payload # <<>> <=> step = "load" \/ outcome \in {"stored", "filled", "refused"}
    /\ outcome \in Errors \cup {"none", "stored", "filled", "refused"}
    /\ outcome # "none" <=> step = "end"

Init ==
    /\ table \in Tables /\ changes = 0
    /\ operation \in Operations /\ block \in Blocks
    /\ step = "show" /\ metadata = Unknown /\ current = {}
    /\ cause = "none" /\ payload = <<>> /\ outcome = "none"

End(result) == step' = "end" /\ outcome' = result

-----------------------------------------------------------------------------
(* Discovery.                                                              *)

\* Mutant: the marker "access denied" is looked for first.
ClassDeniedFirst(code, words) ==
    IF code \in {1044, 1142, 1143, 1227} \/ "access denied" \in words THEN "permission"
    ELSE IF code = 1045 THEN "authentication" ELSE "metadata"

\* _metadata_error, and what is raised when it finds no class.
Class(code, words) ==
    IF code = 1045 \/ {"access denied", "using password"} \subseteq words THEN "authentication"
    ELSE IF \/ code \in {1044, 1142, 1143, 1227}
            \/ words \cap {"command denied", "permission", "privilege", "access denied"} # {}
         THEN "permission"
    ELSE "metadata"

\* A request is refused because there is no table, and then only for that, or for
\* another reason.
Refused ==
    \E r \in Refusals :
        /\ (table = NoTable) = (r.cause = "gone")
        /\ cause' = r.cause
        /\ End(Class(r.code, r.words))
        /\ UNCHANGED <<table, changes, operation, block, metadata, current, payload>>

\* What the parser may make of a table's text.
Parsed == [t \in Tables |-> {ParseCreateTable(Render(t, s)) : s \in Styles}]

ShowCreate ==
    /\ step = "show"
    /\ \/ Refused
       \/ /\ table # NoTable
          /\ \E parsed \in Parsed[table] :
                IF parsed = Error THEN End("metadata") /\ UNCHANGED <<metadata, current>>
                ELSE /\ metadata' = [model |-> parsed.model, keys |-> parsed.keys,
                                     mow |-> parsed.mow, columns |-> <<>>]
                     /\ current' = {"create"} /\ step' = "describe" /\ UNCHANGED outcome
          /\ UNCHANGED <<table, changes, operation, block, cause, payload>>

\* DESCRIBE; a type without an Arrow type raises DorisSchemaError.
Describe ==
    /\ step = "describe"
    /\ \/ Refused
       \/ /\ table # NoTable
          /\ metadata' = [metadata EXCEPT !.columns = table.columns]
          /\ current' = current \cup {"describe"}
          /\ IF \E i \in DOMAIN table.columns : table.columns[i].type = "bitmap"
             THEN End("schema") ELSE step' = "start" /\ UNCHANGED outcome
          /\ UNCHANGED <<table, changes, operation, block, cause, payload>>

-----------------------------------------------------------------------------
(* Validation.                                                             *)

\* Mutant: any Unique Key table takes partial updates.
SchemaFitsAnyUnique(columns) ==
    LET names == Names(columns)
        known == Names(metadata.columns)
    IN  /\ IsInjective(names)
        /\ \A i \in DOMAIN columns : columns[i].kind # "zoned"
        /\ ToSet(metadata.keys) \subseteq ToSet(names)
        /\ operation \in {"upsert", "partial_update"} => metadata.model = "UNIQUE KEY"
        /\ IF operation = "partial_update" THEN ToSet(names) \subseteq ToSet(known) ELSE names = known

\* Mutant: every operation needs a Merge-on-Write table.
SchemaFitsMow(columns) ==
    LET names == Names(columns)
        known == Names(metadata.columns)
    IN  /\ IsInjective(names)
        /\ \A i \in DOMAIN columns : columns[i].kind # "zoned"
        /\ ToSet(metadata.keys) \subseteq ToSet(names)
        /\ operation # "load" => metadata.model = "UNIQUE KEY" /\ metadata.mow
        /\ IF operation = "partial_update" THEN ToSet(names) \subseteq ToSet(known) ELSE names = known

\* validate_write_table, what it asks of a schema.
SchemaFits(columns) ==
    LET names == Names(columns)
        known == Names(metadata.columns)
    IN  /\ IsInjective(names)
        /\ \A i \in DOMAIN columns : columns[i].kind # "zoned"
        /\ ToSet(metadata.keys) \subseteq ToSet(names)
        /\ operation = "upsert" => metadata.model = "UNIQUE KEY"
        /\ operation = "partial_update" => metadata.model = "UNIQUE KEY" /\ metadata.mow
        /\ IF operation = "partial_update" THEN ToSet(names) \subseteq ToSet(known) ELSE names = known

\* A safe cast to the Arrow type of a Doris type.
Castable(kind, type) == kind \in (IF type = "int" THEN {"small"} ELSE {"small", "huge", "text"})

\* JSON columns of a partial update go into the JSON payload as they are.
Prepared(column, declared) ==
    IF operation = "partial_update" /\ declared.type = "json" THEN column
    ELSE [column EXCEPT !.kind = IF declared.type = "int" THEN "small" ELSE "text"]

\* Mutant: nulls are left to Doris.
ColumnFitsNulls(column, declared) ==
    \/ operation = "partial_update" /\ declared.type = "json"
    \/ Castable(column.kind, declared.type)

\* What validate_write_table asks of a column's values.
ColumnFits(column, declared) ==
    /\ column.null => declared.null
    /\ \/ operation = "partial_update" /\ declared.type = "json"
       \/ Castable(column.kind, declared.type)

Declared(columns, name) == columns[CHOOSE i \in DOMAIN columns : columns[i].name = name]

\* on_write_start: with Ray >= 2.53 the first schema is checked here as well.
StartChecked ==
    /\ step = "start"
    /\ IF SchemaFits(block) THEN step' = "write" /\ UNCHANGED outcome ELSE End("compatibility")
    /\ UNCHANGED <<table, changes, operation, block, metadata, current, cause, payload>>

StartUnchecked ==
    /\ step = "start" /\ step' = "write"
    /\ UNCHANGED <<table, changes, operation, block, metadata, current, cause, payload, outcome>>

\* DorisDatasink.write: a block is checked as a whole, then column by column.
Write ==
    /\ step = "write"
    /\ IF SchemaFits(block) /\ \A i \in DOMAIN block :
                                   ColumnFits(block[i], Declared(metadata.columns, block[i].name))
       THEN /\ payload' = [i \in DOMAIN block |->
                            Prepared(block[i], Declared(metadata.columns, block[i].name))]
            /\ step' = "load" /\ UNCHANGED outcome
       ELSE End("compatibility") /\ UNCHANGED payload
    /\ UNCHANGED <<table, changes, operation, block, metadata, current, cause>>

-----------------------------------------------------------------------------
(* Doris, which is external.                                               *)

\* A column of the table takes the values sent under its name; a full row without it
\* leaves it NULL, a partial update leaves it as it was.
Takes(column, sent) ==
    IF \E i \in DOMAIN sent : sent[i].name = column.name
    THEN LET values == Declared(sent, column.name)
         IN  /\ values.null => column.null
             /\ \/ values.kind = "small"
                \/ values.kind \in {"huge", "text"} /\ column.type # "int"
                \/ values.kind = "struct" /\ column.type = "json" /\ operation = "partial_update"
    ELSE column.null \/ operation = "partial_update"

\* "stored": everything sent is stored, and every column of a full row is sent.
Answer(sent) ==
    LET names == ToSet(Names(sent))
        columns == ToSet(Names(table.columns))
    IN  IF table = NoTable THEN "refused"
        ELSE IF \E i \in DOMAIN table.columns : ~Takes(table.columns[i], sent) THEN "refused"
        ELSE IF operation = "partial_update"
             THEN IF table.mow /\ names \subseteq columns /\ ToSet(table.keys) \subseteq names
                  THEN "stored" ELSE "refused"
        ELSE IF names = columns THEN "stored" ELSE "filled"

Load ==
    /\ step = "load" /\ End(Answer(payload))
    /\ UNCHANGED <<table, changes, operation, block, metadata, current, cause, payload>>

\* Someone alters, recreates or drops the table.
Change ==
    /\ step # "end" /\ changes < MaxChanges /\ changes' = changes + 1
    /\ table' \in (Tables \cup {NoTable}) \ {table}
    /\ current' = {}
    /\ UNCHANGED <<operation, block, step, metadata, cause, payload, outcome>>

Ended == step = "end" /\ UNCHANGED vars

Next ==
    \/ ShowCreate \/ Describe \/ StartChecked \/ StartUnchecked \/ Write \/ Load
    \/ Change \/ Ended

Spec == Init /\ [][Next]_vars

-----------------------------------------------------------------------------
(* Correctness.                                                            *)

\* What the operation means needs: replacing rows a Unique Key table.
Meant == operation = "upsert" => table.model = "UNIQUE KEY"

\* "Cannot safely target the table": what passes validation is stored, whole and as
\* the operation means it, if the table is still the one the answers described.  A
\* load rests on DESCRIBE alone: the table may be recreated between the two requests.
\* And what an answer told the driver is so as long as the table is the same.
AcceptedIsStored ==
    /\ TypeOK
    /\ "create" \in current =>
          /\ table # NoTable
          /\ metadata.model = table.model /\ metadata.keys = table.keys /\ metadata.mow = table.mow
    /\ "describe" \in current => table # NoTable /\ metadata.columns = table.columns
    /\ payload # <<>> /\ "describe" \in current /\ (operation # "load" => "create" \in current)
        => outcome \in {"none", "stored"} /\ Answer(payload) = "stored" /\ Meant

\* An error says what is wrong: its class why Doris refused a request, and of a text
\* the parser understands all; a block is rejected only if Doris would not have stored
\* it as the operation means it, or does not have the table's order in full rows.
ErrorsSayWhy ==
    /\ cause # "none" =>
          outcome = IF cause \in {"authentication", "permission"} THEN cause ELSE "metadata"
    /\ outcome = "metadata" => cause # "none"
    /\ outcome = "compatibility" /\ current = {"create", "describe"}
          => \/ Answer(block) # "stored" \/ ~Meant \/ ~IsInjective(Names(block))
             \/ operation # "partial_update" /\ Names(block) # Names(table.columns)
=============================================================================
