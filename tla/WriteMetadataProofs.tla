------------------------ MODULE WriteMetadataProofs ------------------------
(***************************************************************************)
(* Proofs for WriteMetadata: any tables, blocks and refusals, and any      *)
(* number of changes.  What a recursive scanner finds in a text is beyond  *)
(* the provers: that the parser understands what Doris renders is the      *)
(* hypothesis ParserUnderstands, which the runs check.                     *)
(***************************************************************************)
EXTENDS WriteMetadata, TLAPS

\* What there is to be found in the text of a table.
Described(t) == [model |-> t.model, keys |-> t.keys, mow |-> t.mow]

\* The parser finds that, whatever the comments and properties, and nothing else.
ParserUnderstands ==
    \A t \in Tables : Parsed[t] = {Described(t)} /\ Described(t) # Error

\* The driver's record has its four fields, and all it needs for the step it is at.
KnownSoFar ==
    /\ metadata = [model |-> metadata.model, keys |-> metadata.keys,
                   mow |-> metadata.mow, columns |-> metadata.columns]
    /\ step = "show" => metadata = Unknown /\ current = {}
    /\ step \in {"describe", "start", "write", "load"} =>
          metadata.model \in Models /\ ToSet(metadata.keys) # {}

IInv == TypeOK /\ KnownSoFar /\ AcceptedIsStored /\ ErrorsSayWhy

-----------------------------------------------------------------------------
(* Tables, and columns looked up by name.                                  *)

\* What the assumption says of a table.
LEMMA TableFacts ==
    ASSUME NEW t \in Tables
    PROVE  /\ t # NoTable /\ t.model \in Models
           /\ t.mow => t.model = "UNIQUE KEY"
           /\ ToSet(t.keys) # {} /\ ToSet(t.keys) \subseteq ToSet(Names(t.columns))
           /\ IsInjective(Names(t.columns))
           /\ \A i \in DOMAIN t.columns : t.columns[i].type \in Types
           /\ t.columns # <<>>
  <1>1. t.model \in Models /\ (t.mow => t.model = "UNIQUE KEY")
    BY WriteMetadataAssumption
  <1>2. t # NoTable
    <2>1. NoTable.model = "none"
      BY DEF NoTable
    <2> QED
      BY <1>1, <2>1 DEF Models
  <1>3. ToSet(t.keys) # {}
    BY WriteMetadataAssumption
  <1>4. ToSet(t.keys) \subseteq {t.columns[i].name : i \in DOMAIN t.columns}
    BY WriteMetadataAssumption
  <1>5. ToSet(Names(t.columns)) = {t.columns[i].name : i \in DOMAIN t.columns}
    BY DEF ToSet, Names
  <1>6. IsInjective(Names(t.columns))
    BY WriteMetadataAssumption DEF Names
  <1>7. \A i \in DOMAIN t.columns : t.columns[i].type \in Types
    BY WriteMetadataAssumption
  <1>8. t.columns # <<>>
    <2>1. PICK n : n \in {t.columns[i].name : i \in DOMAIN t.columns}
      BY <1>3, <1>4
    <2>2. PICK i \in DOMAIN t.columns : n = t.columns[i].name
      BY <2>1
    <2> QED
      BY <2>2
  <1> QED
    BY <1>1, <1>2, <1>3, <1>4, <1>5, <1>6, <1>7, <1>8

\* Where names differ, the column declared under the name of a position is the one there.
LEMMA DeclaredThere ==
    ASSUME NEW columns, IsInjective(Names(columns)), NEW i \in DOMAIN columns
    PROVE  Declared(columns, columns[i].name) = columns[i]
  <1>1. \A j \in DOMAIN columns : columns[j].name = columns[i].name => j = i
    BY DEF IsInjective, Names
  <1> DEFINE there == CHOOSE j \in DOMAIN columns : columns[j].name = columns[i].name
  <1>2. there \in DOMAIN columns /\ columns[there].name = columns[i].name
    OBVIOUS
  <1>3. there = i
    BY <1>1, <1>2
  <1> QED
    BY <1>3 DEF Declared

\* The names of columns are those at their positions.
LEMMA NamedColumns ==
    ASSUME NEW columns
    PROVE  /\ \A i \in DOMAIN columns : columns[i].name \in ToSet(Names(columns))
           /\ \A n \in ToSet(Names(columns)) : \E i \in DOMAIN columns : columns[i].name = n
  BY DEF ToSet, Names

\* The columns of a block.
LEMMA BlockFacts ==
    ASSUME NEW b \in Blocks, NEW i \in DOMAIN b
    PROVE  /\ b[i].kind \in Kinds /\ b[i].null \in BOOLEAN
           /\ b[i] = [name |-> b[i].name, kind |-> b[i].kind, null |-> b[i].null]
  <1>1. b[i] \in [name : {b[i].name}, kind : Kinds, null : BOOLEAN]
    BY WriteMetadataAssumption
  <1> QED
    BY <1>1

\* A column a block may have is converted to one Doris takes: its name and nulls stay.
LEMMA PreparedIsTaken ==
    ASSUME operation \in Operations,
           NEW column, column = [name |-> column.name, kind |-> column.kind, null |-> column.null],
           column.kind \in Kinds, column.kind # "zoned",
           NEW declared, declared.type \in Types, ColumnFits(column, declared)
    PROVE  LET values == Prepared(column, declared)
           IN  /\ values.name = column.name
               /\ values.null => declared.null
               /\ \/ values.kind = "small"
                  \/ values.kind \in {"huge", "text"} /\ declared.type # "int"
                  \/ values.kind = "struct" /\ declared.type = "json" /\ operation = "partial_update"
  <1>1. CASE operation = "partial_update" /\ declared.type = "json"
    BY <1>1 DEF Prepared, ColumnFits, Kinds
  <1>2. CASE ~(operation = "partial_update" /\ declared.type = "json") /\ declared.type = "int"
    BY <1>2 DEF Prepared, ColumnFits
  <1>3. CASE ~(operation = "partial_update" /\ declared.type = "json") /\ declared.type # "int"
    BY <1>3 DEF Prepared, ColumnFits
  <1> QED
    BY <1>1, <1>2, <1>3

\* A column Doris takes under its name fits it.
LEMMA TakenFits ==
    ASSUME NEW declared, NEW sent, IsInjective(Names(sent)),
           NEW i \in DOMAIN sent, sent[i].name = declared.name, Takes(declared, sent)
    PROVE  ColumnFits(sent[i], declared) /\ sent[i].kind # "zoned"
  <1>1. Declared(sent, declared.name) = sent[i]
    BY DeclaredThere
  <1>2. \E j \in DOMAIN sent : sent[j].name = declared.name
    OBVIOUS
  <1> DEFINE values == Declared(sent, declared.name)
  <1>3. /\ values.null => declared.null
        /\ \/ values.kind = "small"
           \/ values.kind \in {"huge", "text"} /\ declared.type # "int"
           \/ values.kind = "struct" /\ declared.type = "json" /\ operation = "partial_update"
    BY <1>2 DEF Takes
  <1>4. /\ sent[i].null => declared.null
        /\ \/ sent[i].kind = "small"
           \/ sent[i].kind \in {"huge", "text"} /\ declared.type # "int"
           \/ sent[i].kind = "struct" /\ declared.type = "json" /\ operation = "partial_update"
    BY <1>1, <1>3
  <1> QED
    BY <1>4 DEF ColumnFits, Castable

-----------------------------------------------------------------------------
(* Validation and Doris agree.                                             *)

\* What the driver knows is so, as far as its operation rests on it.
KnownIsSo ==
    /\ table \in Tables /\ metadata.columns = table.columns
    /\ operation # "load" => /\ metadata.model = table.model /\ metadata.keys = table.keys
                             /\ metadata.mow = table.mow

\* The block as it is sent.
PreparedBlock ==
    [i \in DOMAIN block |-> Prepared(block[i], Declared(metadata.columns, block[i].name))]

BlockFits ==
    /\ SchemaFits(block)
    /\ \A i \in DOMAIN block : ColumnFits(block[i], Declared(metadata.columns, block[i].name))

\* A converted block has the names of the block.
LEMMA PreparedNames ==
    ASSUME block \in Blocks
    PROVE  Names(PreparedBlock) = Names(block)
  <1>1. ASSUME NEW i \in DOMAIN block
        PROVE  PreparedBlock[i].name = block[i].name
    <2>1. block[i] = [name |-> block[i].name, kind |-> block[i].kind, null |-> block[i].null]
      BY BlockFacts
    <2>2. PreparedBlock[i] = Prepared(block[i], Declared(metadata.columns, block[i].name))
      BY DEF PreparedBlock
    <2>3. ASSUME NEW declared
          PROVE  Prepared(block[i], declared).name = block[i].name
      BY <2>1 DEF Prepared
    <2> QED
      BY <2>2, <2>3
  <1>2. DOMAIN PreparedBlock = DOMAIN block
    BY DEF PreparedBlock
  <1> QED
    BY <1>1, <1>2 DEF Names

\* The names of a block that fits are names of the table, and all of them in full rows.
LEMMA FittingNames ==
    ASSUME KnownIsSo, operation \in Operations, BlockFits
    PROVE  /\ IsInjective(Names(block))
           /\ ToSet(Names(block)) \subseteq ToSet(Names(table.columns))
           /\ operation # "partial_update" => Names(block) = Names(table.columns)
           /\ \A i \in DOMAIN block : block[i].kind # "zoned"
  BY DEF KnownIsSo, BlockFits, SchemaFits

\* Doris takes every column of the table from a block that fits.
LEMMA FittingIsTaken ==
    ASSUME KnownIsSo, operation \in Operations, block \in Blocks, BlockFits,
           NEW c \in DOMAIN table.columns
    PROVE  Takes(table.columns[c], PreparedBlock)
  <1> DEFINE column == table.columns[c]
  <1>1. IsInjective(Names(table.columns)) /\ column.type \in Types
    BY TableFacts DEF KnownIsSo
  <1>2. Declared(table.columns, column.name) = column
    BY <1>1, DeclaredThere
  <1>3. CASE \E i \in DOMAIN PreparedBlock : PreparedBlock[i].name = column.name
    <2>1. PICK i \in DOMAIN PreparedBlock : PreparedBlock[i].name = column.name
      BY <1>3
    <2>2. i \in DOMAIN block /\ block[i].name = column.name
      <3>1. i \in DOMAIN block
        BY DEF PreparedBlock
      <3>2. Names(PreparedBlock)[i] = PreparedBlock[i].name /\ Names(block)[i] = block[i].name
        BY <3>1 DEF Names
      <3> QED
        BY <2>1, <3>1, <3>2, PreparedNames
    <2>3. IsInjective(Names(PreparedBlock))
      BY PreparedNames, FittingNames
    <2>4. Declared(PreparedBlock, column.name) = PreparedBlock[i]
      BY <2>1, <2>3, DeclaredThere
    <2>5. Declared(metadata.columns, block[i].name) = column
      BY <1>2, <2>2 DEF KnownIsSo
    <2>6. PreparedBlock[i] = Prepared(block[i], column)
      BY <2>2, <2>5 DEF PreparedBlock
    <2>7. ColumnFits(block[i], column)
      BY <2>2, <2>5 DEF BlockFits
    <2>8. /\ block[i].kind \in Kinds /\ block[i].kind # "zoned"
          /\ block[i] = [name |-> block[i].name, kind |-> block[i].kind, null |-> block[i].null]
      BY <2>2, BlockFacts, FittingNames
    <2> DEFINE values == Prepared(block[i], column)
    <2>9. /\ values.null => column.null
          /\ \/ values.kind = "small"
             \/ values.kind \in {"huge", "text"} /\ column.type # "int"
             \/ values.kind = "struct" /\ column.type = "json" /\ operation = "partial_update"
      BY <1>1, <2>7, <2>8, PreparedIsTaken
    <2>10. Declared(PreparedBlock, column.name) = values
      BY <2>4, <2>6
    <2> HIDE DEF values
    <2> QED
      BY <1>3, <2>9, <2>10 DEF Takes
  <1>4. CASE ~\E i \in DOMAIN PreparedBlock : PreparedBlock[i].name = column.name
    <2>1. operation = "partial_update"
      <3> SUFFICES ASSUME operation # "partial_update" PROVE FALSE
        OBVIOUS
      <3>1. column.name \in ToSet(Names(PreparedBlock))
        BY NamedColumns, FittingNames, PreparedNames
      <3> QED
        BY <1>4, <3>1, NamedColumns
    <2> QED
      BY <1>4, <2>1 DEF Takes
  <1> QED
    BY <1>3, <1>4

\* What validation lets through of the table it knows is stored as it is meant.
LEMMA FittingIsStored ==
    ASSUME KnownIsSo, operation \in Operations, block \in Blocks, BlockFits
    PROVE  Answer(PreparedBlock) = "stored" /\ Meant
  <1>1. table # NoTable
    BY TableFacts DEF KnownIsSo
  <1>2. \A c \in DOMAIN table.columns : Takes(table.columns[c], PreparedBlock)
    BY FittingIsTaken
  <1>3. Names(PreparedBlock) = Names(block)
    BY PreparedNames
  <1>4. CASE operation = "partial_update"
    <2>1. table.mow /\ ToSet(table.keys) \subseteq ToSet(Names(block))
      BY <1>4 DEF KnownIsSo, BlockFits, SchemaFits
    <2>2. ToSet(Names(block)) \subseteq ToSet(Names(table.columns))
      BY FittingNames
    <2> QED
      BY <1>1, <1>2, <1>3, <1>4, <2>1, <2>2 DEF Answer, Meant
  <1>5. CASE operation # "partial_update"
    <2>1. Names(block) = Names(table.columns)
      BY <1>5, FittingNames
    <2>2. operation = "upsert" => table.model = "UNIQUE KEY"
      BY DEF KnownIsSo, BlockFits, SchemaFits
    <2> QED
      BY <1>1, <1>2, <1>3, <1>5, <2>1, <2>2 DEF Answer, Meant
  <1> QED
    BY <1>4, <1>5

\* What Doris stores of a block as it is, and as it is meant, passes validation.
LEMMA StoredFits ==
    ASSUME KnownIsSo, operation \in Operations, block \in Blocks,
           metadata.model = table.model, metadata.keys = table.keys, metadata.mow = table.mow,
           Answer(block) = "stored", Meant, IsInjective(Names(block)),
           operation = "partial_update" \/ Names(block) = Names(table.columns)
    PROVE  BlockFits
  <1>1. table \in Tables /\ metadata.columns = table.columns
    BY DEF KnownIsSo
  <1>2. /\ IsInjective(Names(table.columns)) /\ (table.mow => table.model = "UNIQUE KEY")
        /\ ToSet(table.keys) \subseteq ToSet(Names(table.columns))
    BY <1>1, TableFacts
  <1>3. \A c \in DOMAIN table.columns : Takes(table.columns[c], block)
    BY DEF Answer
  <1>4. /\ ToSet(table.keys) \subseteq ToSet(Names(block))
        /\ ToSet(Names(block)) \subseteq ToSet(Names(table.columns))
        /\ operation = "partial_update" => table.mow
    BY <1>2 DEF Answer
  <1>5. ASSUME NEW i \in DOMAIN block
        PROVE  /\ ColumnFits(block[i], Declared(metadata.columns, block[i].name))
               /\ block[i].kind # "zoned"
    <2>1. block[i].name \in ToSet(Names(table.columns))
      BY <1>4, NamedColumns
    <2>2. PICK c \in DOMAIN table.columns : table.columns[c].name = block[i].name
      BY <2>1, NamedColumns
    <2>3. Declared(metadata.columns, block[i].name) = table.columns[c]
      BY <1>1, <1>2, <2>2, DeclaredThere
    <2>4. ColumnFits(block[i], table.columns[c]) /\ block[i].kind # "zoned"
      BY <1>3, <2>2, TakenFits
    <2> QED
      BY <2>3, <2>4
  <1>6. SchemaFits(block)
    BY <1>1, <1>2, <1>4, <1>5 DEF SchemaFits, Meant
  <1> QED
    BY <1>5, <1>6 DEF BlockFits

\* The class of a refusal is its cause, where it has one.
LEMMA ClassIsCause ==
    ASSUME NEW r \in Refusals
    PROVE  /\ r.cause \in Causes
           /\ Class(r.code, r.words) =
                 IF r.cause \in {"authentication", "permission"} THEN r.cause ELSE "metadata"
  <1>1. r.cause \in Causes
    BY WriteMetadataAssumption
  <1>2. /\ r.cause = "authentication" => LogsIn(r)
        /\ r.cause = "permission" => Denies(r) /\ ~LogsIn(r)
        /\ r.cause \in {"gone", "other"} => ~Denies(r) /\ ~LogsIn(r)
    BY DorisSaysWhy
  <1> DEFINE markers == {"command denied", "permission", "privilege", "access denied"}
             listed == r.code \in {1044, 1142, 1143, 1227}
             marked == r.words \cap markers # {}
             both == {"access denied", "using password"} \subseteq r.words
  <1>3. marked <=> \E word \in markers : word \in r.words
    OBVIOUS
  <1>4. both <=> "access denied" \in r.words /\ "using password" \in r.words
    OBVIOUS
  <1>5. Class(r.code, r.words) = IF r.code = 1045 \/ both THEN "authentication"
                                 ELSE IF listed \/ marked THEN "permission" ELSE "metadata"
    BY DEF Class
  <1>6. LogsIn(r) <=> r.code = 1045 \/ both
    BY <1>4 DEF LogsIn
  <1>7. Denies(r) <=> listed \/ \E word \in markers : word \in r.words
    BY DEF Denies
  <1> HIDE DEF listed, marked, both, markers
  <1>8. CASE LogsIn(r)
    <2>1. Class(r.code, r.words) = "authentication"
      BY <1>8, <1>5, <1>6
    <2> QED
      BY <1>1, <1>2, <1>8, <2>1 DEF Causes
  <1>9. CASE Denies(r) /\ ~LogsIn(r)
    <2>1. Class(r.code, r.words) = "permission"
      BY <1>9, <1>3, <1>5, <1>6, <1>7
    <2> QED
      BY <1>1, <1>2, <1>9, <2>1 DEF Causes
  <1>10. CASE ~Denies(r) /\ ~LogsIn(r)
    <2>1. Class(r.code, r.words) = "metadata"
      BY <1>10, <1>3, <1>5, <1>6, <1>7
    <2> QED
      BY <1>1, <1>2, <1>10, <2>1 DEF Causes
  <1> QED
    BY <1>8, <1>9, <1>10

-----------------------------------------------------------------------------
(* The invariant.                                                          *)

\* Nothing is known at first.
LEMMA InitIInv == Init => IInv
  <1> SUFFICES ASSUME Init PROVE IInv
    OBVIOUS
  <1>1. TypeOK
    <2>1. 0 \in 0..MaxChanges
      <3>1. MaxChanges \in Nat
        BY WriteMetadataAssumption
      <3> QED
        BY <3>1
    <2>2. metadata = Unknown /\ step = "show" /\ payload = <<>> /\ outcome = "none"
      BY DEF Init
    <2> QED
      BY <2>1, <2>2 DEF Init, TypeOK
  <1>2. KnownSoFar
    BY DEF Init, KnownSoFar, Unknown
  <1>3. AcceptedIsStored /\ ErrorsSayWhy
    BY <1>1 DEF Init, AcceptedIsStored, ErrorsSayWhy
  <1> QED
    BY <1>1, <1>2, <1>3 DEF IInv

\* A request that is refused ends with the class of its cause.
LEMMA RefusedIInv ==
    IInv /\ step \in {"show", "describe"} /\ Refused => IInv'
  <1> SUFFICES ASSUME IInv, step \in {"show", "describe"}, Refused
               PROVE  IInv'
    OBVIOUS
  <1> USE DEF IInv
  <1>1. PICK r \in Refusals : cause' = r.cause /\ End(Class(r.code, r.words))
    BY DEF Refused
  <1>2. UNCHANGED <<table, changes, operation, block, metadata, current, payload>>
    BY DEF Refused
  <1>3. /\ cause' \in Causes /\ step' = "end"
        /\ outcome' = IF cause' \in {"authentication", "permission"} THEN cause' ELSE "metadata"
    BY <1>1, ClassIsCause DEF End
  <1>4. cause' # "none" /\ outcome' \in {"authentication", "permission", "metadata"}
    BY <1>3 DEF Causes
  <1>5. payload = <<>>
    BY DEF TypeOK
  <1>6. metadata = Unknown => current = {}
    BY DEF TypeOK, KnownSoFar
  <1>7. TypeOK'
    BY <1>2, <1>3, <1>4, <1>5, <1>6 DEF TypeOK, Errors
  <1>8. KnownSoFar'
    BY <1>2, <1>3 DEF KnownSoFar
  <1>9. AcceptedIsStored'
    BY <1>2, <1>5, <1>7 DEF AcceptedIsStored
  <1>10. ErrorsSayWhy'
    BY <1>3, <1>4 DEF ErrorsSayWhy
  <1> QED
    BY <1>7, <1>8, <1>9, <1>10

\* The driver learns the model, the keys and the property as they are.
LEMMA ShowCreateIInv ==
    ASSUME ParserUnderstands
    PROVE  IInv /\ ShowCreate => IInv'
  <1> SUFFICES ASSUME IInv, ShowCreate
               PROVE  IInv'
    OBVIOUS
  <1>1. CASE Refused
    BY <1>1, RefusedIInv DEF ShowCreate
  <1>2. CASE ~Refused
    <2> USE DEF IInv
    <2>1. table \in Tables
      BY <1>2 DEF ShowCreate, TypeOK
    <2>2. PICK parsed \in Parsed[table] :
             IF parsed = Error THEN End("metadata") /\ UNCHANGED <<metadata, current>>
             ELSE /\ metadata' = [model |-> parsed.model, keys |-> parsed.keys,
                                  mow |-> parsed.mow, columns |-> <<>>]
                  /\ current' = {"create"} /\ step' = "describe" /\ UNCHANGED outcome
      BY <1>2 DEF ShowCreate
    <2>3. parsed = Described(table) /\ parsed # Error
      BY <2>1, <2>2 DEF ParserUnderstands
    <2>4. /\ metadata' = [model |-> table.model, keys |-> table.keys,
                          mow |-> table.mow, columns |-> <<>>]
          /\ current' = {"create"} /\ step' = "describe" /\ UNCHANGED outcome
      BY <2>2, <2>3 DEF Described
    <2>5. UNCHANGED <<table, changes, operation, block, cause, payload>>
      BY <1>2 DEF ShowCreate
    <2>6. /\ table # NoTable /\ table.model \in Models /\ ToSet(table.keys) # {}
      BY <2>1, TableFacts
    <2>7. /\ metadata'.model = table.model /\ metadata'.keys = table.keys
          /\ metadata'.mow = table.mow /\ metadata'.columns = <<>>
      BY <2>4
    <2>8. metadata' # Unknown
      <3>1. Unknown.model = "none"
        BY DEF Unknown
      <3> QED
        BY <2>6, <2>7, <3>1 DEF Models
    <2>9. step = "show" /\ payload = <<>> /\ outcome = "none"
      BY DEF ShowCreate, TypeOK
    <2>10. TypeOK'
      BY <2>4, <2>5, <2>8, <2>9 DEF TypeOK
    <2>11. KnownSoFar'
      BY <2>4, <2>6, <2>7 DEF KnownSoFar
    <2>12. AcceptedIsStored'
      BY <2>4, <2>5, <2>6, <2>7, <2>9, <2>10 DEF AcceptedIsStored
    <2>13. ErrorsSayWhy'
      BY <2>4, <2>5, <2>9 DEF ErrorsSayWhy
    <2> QED
      BY <2>10, <2>11, <2>12, <2>13
  <1> QED
    BY <1>1, <1>2

\* And the columns.
LEMMA DescribeIInv ==
    IInv /\ Describe => IInv'
  <1> SUFFICES ASSUME IInv, Describe
               PROVE  IInv'
    OBVIOUS
  <1>1. CASE Refused
    BY <1>1, RefusedIInv DEF Describe
  <1>2. CASE ~Refused
    <2> USE DEF IInv
    <2>1. table \in Tables /\ table # NoTable /\ table.columns # <<>>
      BY <1>2, TableFacts DEF Describe, TypeOK
    <2>2. /\ metadata' = [metadata EXCEPT !.columns = table.columns]
          /\ current' = current \cup {"describe"}
          /\ UNCHANGED <<table, changes, operation, block, cause, payload>>
      BY <1>2 DEF Describe
    <2>3. \/ step' = "end" /\ outcome' = "schema"
          \/ step' = "start" /\ outcome' = outcome
      BY <1>2 DEF Describe, End
    <2>4. metadata' = [model |-> metadata.model, keys |-> metadata.keys,
                       mow |-> metadata.mow, columns |-> table.columns]
      BY <2>2 DEF KnownSoFar
    <2>5. /\ metadata'.model = metadata.model /\ metadata'.keys = metadata.keys
          /\ metadata'.mow = metadata.mow /\ metadata'.columns = table.columns
      BY <2>4
    <2>6. step = "describe" /\ payload = <<>> /\ outcome = "none"
      BY DEF Describe, TypeOK
    <2>7. metadata.model \in Models /\ ToSet(metadata.keys) # {}
      BY <2>6 DEF KnownSoFar
    <2>8. metadata' # Unknown
      <3>1. Unknown.model = "none"
        BY DEF Unknown
      <3> QED
        BY <2>5, <2>7, <3>1 DEF Models
    <2>9. TypeOK'
      BY <2>1, <2>2, <2>3, <2>5, <2>6, <2>8 DEF TypeOK, Errors
    <2>10. KnownSoFar'
      BY <2>3, <2>4, <2>5, <2>7 DEF KnownSoFar
    <2>11. AcceptedIsStored'
      BY <2>1, <2>2, <2>5, <2>6, <2>9 DEF AcceptedIsStored
    <2>12. cause = "none"
      BY <2>6 DEF ErrorsSayWhy, TypeOK, Causes
    <2>13. ErrorsSayWhy'
      BY <2>2, <2>3, <2>6, <2>12 DEF ErrorsSayWhy
    <2> QED
      BY <2>9, <2>10, <2>11, <2>13
  <1> QED
    BY <1>1, <1>2

\* Refusing the schema at the start says why.
LEMMA RejectedSaysWhy ==
    ASSUME TypeOK, AcceptedIsStored, current = {"create", "describe"}, ~BlockFits
    PROVE  \/ Answer(block) # "stored" \/ ~Meant \/ ~IsInjective(Names(block))
           \/ operation # "partial_update" /\ Names(block) # Names(table.columns)
  <1>1. /\ table # NoTable /\ metadata.columns = table.columns
        /\ metadata.model = table.model /\ metadata.keys = table.keys /\ metadata.mow = table.mow
    BY DEF AcceptedIsStored
  <1>2. table \in Tables /\ operation \in Operations /\ block \in Blocks
    BY <1>1 DEF TypeOK
  <1>3. KnownIsSo
    BY <1>1, <1>2 DEF KnownIsSo
  <1> QED
    BY <1>1, <1>2, <1>3, StoredFits

\* A step that ends in a rejected block.
LEMMA RejectIInv ==
    ASSUME IInv, step \in {"start", "write"}, ~BlockFits, End("compatibility"),
           UNCHANGED <<table, changes, operation, block, metadata, current, cause, payload>>
    PROVE  IInv'
  <1> USE DEF IInv
  <1>1. payload = <<>> /\ step' = "end" /\ outcome' = "compatibility" /\ outcome = "none"
    BY DEF TypeOK, End
  <1>2. metadata # Unknown
    BY DEF TypeOK, Errors
  <1>3. cause = "none"
    BY <1>1 DEF ErrorsSayWhy, TypeOK, Causes
  <1>4. TypeOK'
    BY <1>1, <1>2 DEF TypeOK, Errors
  <1>5. KnownSoFar'
    BY <1>1 DEF KnownSoFar
  <1>6. AcceptedIsStored'
    BY <1>1, <1>4 DEF AcceptedIsStored
  <1>7. ErrorsSayWhy'
    <2>1. current = {"create", "describe"} =>
             \/ Answer(block) # "stored" \/ ~Meant \/ ~IsInjective(Names(block))
             \/ operation # "partial_update" /\ Names(block) # Names(table.columns)
      BY RejectedSaysWhy
    <2>2. Answer(block)' = Answer(block) /\ (Meant' <=> Meant)
      BY DEF Answer, Takes, Meant
    <2> QED
      BY <1>1, <1>3, <2>1, <2>2 DEF ErrorsSayWhy
  <1> QED
    BY <1>4, <1>5, <1>6, <1>7

\* A step to "write", with or without a check.
LEMMA StartIInv ==
    IInv /\ (StartChecked \/ StartUnchecked) => IInv'
  <1> SUFFICES ASSUME IInv, StartChecked \/ StartUnchecked
               PROVE  IInv'
    OBVIOUS
  <1>1. /\ step = "start"
        /\ UNCHANGED <<table, changes, operation, block, metadata, current, cause, payload>>
    BY DEF StartChecked, StartUnchecked
  <1>2. CASE ~SchemaFits(block) /\ StartChecked
    <2>1. ~BlockFits /\ End("compatibility")
      BY <1>2 DEF StartChecked, BlockFits
    <2> QED
      BY <1>1, <2>1, RejectIInv
  <1>3. CASE SchemaFits(block) \/ StartUnchecked
    <2> USE DEF IInv
    <2>1. step' = "write" /\ outcome' = outcome
      BY <1>3 DEF StartChecked, StartUnchecked
    <2>2. payload = <<>> /\ metadata # Unknown
      BY <1>1 DEF TypeOK, Errors
    <2>3. TypeOK'
      BY <1>1, <2>1, <2>2 DEF TypeOK
    <2>4. KnownSoFar'
      BY <1>1, <2>1 DEF KnownSoFar
    <2>5. AcceptedIsStored'
      BY <1>1, <2>1, <2>2, <2>3 DEF AcceptedIsStored
    <2>6. outcome = "none"
      BY <1>1 DEF TypeOK
    <2>7. ErrorsSayWhy'
      BY <1>1, <2>1, <2>6 DEF ErrorsSayWhy
    <2> QED
      BY <2>3, <2>4, <2>5, <2>7
  <1> QED
    BY <1>2, <1>3 DEF StartChecked

\* A block that passes is stored if it gets to the table it was checked for.
LEMMA WriteIInv ==
    IInv /\ Write => IInv'
  <1> SUFFICES ASSUME IInv, Write
               PROVE  IInv'
    OBVIOUS
  <1>1. /\ step = "write"
        /\ UNCHANGED <<table, changes, operation, block, metadata, current, cause>>
    BY DEF Write
  <1>2. CASE ~BlockFits
    <2>1. End("compatibility") /\ UNCHANGED payload
      BY <1>2 DEF Write, BlockFits
    <2> QED
      BY <1>1, <1>2, <2>1, RejectIInv
  <1>3. CASE BlockFits
    <2> USE DEF IInv
    <2>1. payload' = PreparedBlock /\ step' = "load" /\ outcome' = outcome
      BY <1>3 DEF Write, BlockFits, PreparedBlock
    <2>2. metadata # Unknown /\ outcome = "none" /\ operation \in Operations /\ block \in Blocks
      BY <1>1 DEF TypeOK, Errors
    <2>3. payload' # <<>>
      <3>1. ToSet(metadata.keys) # {} /\ ToSet(metadata.keys) \subseteq ToSet(Names(block))
        BY <1>1, <1>3 DEF KnownSoFar, BlockFits, SchemaFits
      <3>2. PICK i : i \in DOMAIN block
        BY <3>1, NamedColumns
      <3>3. i \in DOMAIN PreparedBlock
        BY <3>2 DEF PreparedBlock
      <3> QED
        BY <2>1, <3>3
    <2>4. TypeOK'
      BY <1>1, <2>1, <2>2, <2>3 DEF TypeOK
    <2>5. KnownSoFar'
      BY <1>1, <2>1 DEF KnownSoFar
    <2>6. ASSUME "describe" \in current, operation # "load" => "create" \in current
          PROVE  Answer(payload)' = "stored" /\ Meant'
      <3>1. KnownIsSo
        BY <2>6 DEF KnownIsSo, AcceptedIsStored, TypeOK
      <3>2. Answer(PreparedBlock) = "stored" /\ Meant
        BY <1>3, <2>2, <3>1, FittingIsStored
      <3>3. Answer(payload)' = Answer(PreparedBlock)
        BY <1>1, <2>1 DEF Answer, Takes
      <3> QED
        BY <1>1, <3>2, <3>3 DEF Meant
    <2>7. AcceptedIsStored'
      BY <1>1, <2>1, <2>2, <2>4, <2>6 DEF AcceptedIsStored
    <2>8. ErrorsSayWhy'
      BY <1>1, <2>1, <2>2 DEF ErrorsSayWhy
    <2> QED
      BY <2>4, <2>5, <2>7, <2>8
  <1> QED
    BY <1>2, <1>3

\* Doris answers a load.
LEMMA LoadIInv ==
    IInv /\ Load => IInv'
  <1> SUFFICES ASSUME IInv, Load
               PROVE  IInv'
    OBVIOUS
  <1> USE DEF IInv
  <1>1. /\ step = "load" /\ step' = "end" /\ outcome' = Answer(payload)
        /\ UNCHANGED <<table, changes, operation, block, metadata, current, cause, payload>>
    BY DEF Load, End
  <1>2. Answer(payload) \in {"stored", "filled", "refused"}
    <2> DEFINE taken == ~\E i \in DOMAIN table.columns : ~Takes(table.columns[i], payload)
    <2> HIDE DEF taken
    <2> QED
      BY DEF Answer, taken
  <1>3. payload # <<>> /\ metadata # Unknown /\ outcome = "none"
    BY <1>1 DEF TypeOK, Errors
  <1>4. cause = "none"
    BY <1>3 DEF ErrorsSayWhy, TypeOK, Causes
  <1>5. TypeOK'
    BY <1>1, <1>2, <1>3 DEF TypeOK
  <1>6. KnownSoFar'
    BY <1>1 DEF KnownSoFar
  <1>7. Answer(payload)' = Answer(payload) /\ (Meant' <=> Meant)
    BY <1>1 DEF Answer, Takes, Meant
  <1>8. AcceptedIsStored'
    BY <1>1, <1>3, <1>5, <1>7 DEF AcceptedIsStored
  <1>9. ErrorsSayWhy'
    BY <1>1, <1>2, <1>4 DEF ErrorsSayWhy
  <1> QED
    BY <1>5, <1>6, <1>8, <1>9

\* After a change nothing the driver knows need be so.
LEMMA ChangeIInv ==
    IInv /\ Change => IInv'
  <1> SUFFICES ASSUME IInv, Change
               PROVE  IInv'
    OBVIOUS
  <1> USE DEF IInv
  <1>1. /\ step # "end" /\ changes < MaxChanges /\ changes' = changes + 1
        /\ table' \in Tables \cup {NoTable} /\ current' = {}
        /\ UNCHANGED <<operation, block, step, metadata, cause, payload, outcome>>
    BY DEF Change
  <1>2. outcome = "none" /\ cause = "none"
    BY <1>1 DEF ErrorsSayWhy, TypeOK, Causes
  <1>3. changes' \in 0..MaxChanges
    <2>1. MaxChanges \in Nat /\ changes \in 0..MaxChanges
      BY WriteMetadataAssumption DEF TypeOK
    <2> QED
      BY <1>1, <2>1
  <1>4. TypeOK'
    BY <1>1, <1>2, <1>3 DEF TypeOK
  <1>5. KnownSoFar'
    BY <1>1 DEF KnownSoFar
  <1>6. AcceptedIsStored'
    BY <1>1, <1>4 DEF AcceptedIsStored
  <1>7. ErrorsSayWhy'
    BY <1>1, <1>2 DEF ErrorsSayWhy
  <1> QED
    BY <1>4, <1>5, <1>6, <1>7

\* A step that changes nothing.
LEMMA StutterIInv ==
    IInv /\ UNCHANGED vars => IInv'
  <1> SUFFICES ASSUME IInv, UNCHANGED vars
               PROVE  IInv'
    OBVIOUS
  <1> USE DEF IInv, vars
  <1>1. Answer(payload)' = Answer(payload) /\ Answer(block)' = Answer(block) /\ (Meant' <=> Meant)
    BY DEF Answer, Takes, Meant
  <1>2. TypeOK'
    BY DEF TypeOK
  <1>3. KnownSoFar'
    BY DEF KnownSoFar
  <1>4. AcceptedIsStored'
    BY <1>1, <1>2 DEF AcceptedIsStored
  <1>5. ErrorsSayWhy'
    BY <1>1 DEF ErrorsSayWhy
  <1> QED
    BY <1>2, <1>3, <1>4, <1>5

\* Every step keeps the invariant.
LEMMA NextIInv ==
    ASSUME ParserUnderstands
    PROVE  IInv /\ [Next]_vars => IInv'
  <1> SUFFICES ASSUME IInv, [Next]_vars
               PROVE  IInv'
    OBVIOUS
  <1>1. CASE ShowCreate
    BY <1>1, ShowCreateIInv
  <1>2. CASE Describe
    BY <1>2, DescribeIInv
  <1>3. CASE StartChecked \/ StartUnchecked
    BY <1>3, StartIInv
  <1>4. CASE Write
    BY <1>4, WriteIInv
  <1>5. CASE Load
    BY <1>5, LoadIInv
  <1>6. CASE Change
    BY <1>6, ChangeIInv
  <1>7. CASE Ended \/ UNCHANGED vars
    BY <1>7, StutterIInv DEF Ended
  <1> QED
    BY <1>1, <1>2, <1>3, <1>4, <1>5, <1>6, <1>7 DEF Next

\* The invariant of every reachable state.
LEMMA AlwaysIInv ==
    ASSUME ParserUnderstands
    PROVE  Spec => []IInv
  <1>1. Init => IInv
    BY InitIInv
  <1>2. IInv /\ [Next]_vars => IInv'
    BY NextIInv
  <1> QED
    BY <1>1, <1>2, PTL DEF Spec

-----------------------------------------------------------------------------
(* The theorems.                                                           *)

\* What passes validate_write_table against a table that is still the same is stored
\* whole, as the operation means it; the driver's record of the table is right.
THEOREM AcceptedIsStoredSafe ==
    ASSUME ParserUnderstands
    PROVE  Spec => []AcceptedIsStored
  <1>1. Spec => []IInv
    BY AlwaysIInv
  <1>2. IInv => AcceptedIsStored
    BY DEF IInv
  <1> QED
    BY <1>1, <1>2, PTL

\* The class of an error says why Doris refused a request, and a block is rejected only
\* if Doris would not have stored it as it is meant.
THEOREM ErrorsSayWhySafe ==
    ASSUME ParserUnderstands
    PROVE  Spec => []ErrorsSayWhy
  <1>1. Spec => []IInv
    BY AlwaysIInv
  <1>2. IInv => ErrorsSayWhy
    BY DEF IInv
  <1> QED
    BY <1>1, <1>2, PTL
=============================================================================
