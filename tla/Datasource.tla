----------------------------- MODULE Datasource -----------------------------
(***************************************************************************)
(* DorisDatasource (datasource.py) and DorisPlanner (_planner.py): the     *)
(* datasource objects Ray's optimizer derives from one another, the        *)
(* discovery each of them caches, the read tasks made from it, and what    *)
(* their readers get.  The table goes on changing: discovery is two        *)
(* requests and every split is a query of its own.                         *)
(*                                                                         *)
(* A row lies in a tablet and meets some of the conditions Ray may push    *)
(* down.  A split is the set of its tablets; SplitReader models how one is *)
(* read and TabletGroups how the groups come about.                        *)
(***************************************************************************)
EXTENDS Naturals, Sequences, FiniteSets, Functions

CONSTANTS
    Rows,         \* rows the table may hold: [tablet, meets]
    InitialRows,
    InitialColumns, AlteredColumns,    \* DESCRIBE, before and after an ALTER TABLE
    ColumnOf,     \* ColumnOf[c]: the column condition c is about
    Projections,  \* projection maps of the optimizer, their keys in order, or None
    Parallelism,  \* hints
    RowLimits,    \* per_task_row_limit, or None
    TabletSize, SingleTask,    \* configuration; on_query_plan_error
    Externals,    \* whether the table is of an external catalog
    None,
    MaxSources,   \* bound on datasource objects
    MaxChain      \* the same where Ray only pushes predicates

Conditions == DOMAIN ColumnOf
Tablets == {r.tablet : r \in Rows}

ASSUME DatasourceAssumption ==
    /\ Rows \subseteq [tablet : Nat \ {0}, meets : SUBSET Conditions] /\ IsFiniteSet(Rows)
    /\ InitialRows \subseteq Rows
    /\ Parallelism \subseteq Nat \ {0} /\ TabletSize \in Nat \ {0}
    /\ RowLimits \subseteq Nat \cup {None}
    /\ Externals \subseteq BOOLEAN /\ SingleTask \in BOOLEAN
    /\ MaxSources \in Nat \ {0} /\ MaxChain \in Nat /\ MaxSources <= MaxChain

VARIABLES
    table,     \* columns and rows in Doris
    source,    \* the datasource objects, each from an earlier one
    call,      \* the get_read_tasks call under way
    job        \* the read tasks of the last call, and what they have read

vars == <<table, source, call, job>>

Schemas == {InitialColumns, AlteredColumns} \cup (Projections \ {None, <<>>})

\* A discovery: the schema, the tablets (None: one unpartitioned task) and the
\* rows that were there (history).
Snapshots == [schema : Schemas, tablets : {None} \cup SUBSET Tablets, base : SUBSET Rows]

ASSUME NoneIsNoValue ==
    /\ None # 0
    /\ \A snapshot \in Snapshots : snapshot # None
    /\ \A tablets \in SUBSET Tablets : tablets # None

\* What Ray asked for along the way to a source is history.
Sources == [parent : 0..MaxChain, external : Externals,
            columns : Projections \ {<<>>}, projection : Projections,
            predicate : SUBSET Conditions, asked : SUBSET Conditions,
            snapshot : {None} \cup Snapshots]

Calls == [source : 1..MaxChain, parallelism : Parallelism, limit : RowLimits,
          step : {"describe", "query_plan", "group"}, schema : Schemas \cup {None}]

Reads == [state : {"unread", "read", "failed"}, columns : Schemas \cup {<<>>},
          rows : SUBSET Rows]
Unread == [state |-> "unread", columns |-> <<>>, rows |-> {}]

TypeOK ==
    /\ table \in [columns : {InitialColumns, AlteredColumns}, rows : SUBSET Rows]
    /\ source \in Seq(Sources) /\ Len(source) \in 1..MaxChain
    /\ call \in {None} \cup Calls
    /\ job # None =>
          /\ job.splits \in Seq({None} \cup SUBSET Tablets)
          /\ job.result \in [DOMAIN job.splits -> Reads]

Init ==
    /\ table = [columns |-> InitialColumns, rows |-> InitialRows]
    /\ \E columns \in Projections \ {<<>>}, external \in Externals :
          source = <<[parent |-> 0, external |-> external,
                      columns |-> columns, projection |-> columns,
                      predicate |-> {}, asked |-> {}, snapshot |-> None]>>
    /\ call = None
    /\ job = None

-----------------------------------------------------------------------------
(* The optimizer's hooks.                                                  *)

\* build_arrow_schema: all columns, or the configured ones,
SchemaOf(columns) == IF columns = None THEN table.columns ELSE columns

\* which must exist.
Describable(columns) == columns # None => Range(columns) \subseteq Range(table.columns)

\* compile_predicate knows the columns of the planned schema, which it takes from
\* the snapshot or asks Doris for.
Compiles(n, c) ==
    IF source[n].snapshot # None
    THEN ColumnOf[c] \in Range(source[n].snapshot.schema)
    ELSE /\ Describable(source[n].columns)
         /\ ColumnOf[c] \in Range(SchemaOf(source[n].columns))

\* Nothing but predicates on an internal table so far.
OnlyPredicates ==
    /\ \A n \in DOMAIN source : ~source[n].external /\ source[n].projection = None
    /\ table.rows = InitialRows
    /\ job # None => job.budget = None

\* Bounds: the last sources of a long chain are read without budget, and get no rows.
MayPush == Len(source) < IF OnlyPredicates THEN MaxChain ELSE MaxSources
LongChain == Len(source) > MaxSources

\* Mutant: the last predicate replaces the ones before.
ApplyPredicateReplaces(n, c) ==
    /\ call = None /\ MayPush
    /\ Compiles(n, c)
    /\ source' = Append(source, [source[n] EXCEPT !.parent = n, !.predicate = {c},
                                                  !.asked = @ \cup {c}, !.snapshot = None])
    /\ UNCHANGED <<table, call, job>>

\* Mutant: the predicate is set on the source itself as well.
ApplyPredicateInPlace(n, c) ==
    /\ call = None /\ MayPush
    /\ Compiles(n, c)
    /\ LET new == [source[n] EXCEPT !.predicate = @ \cup {c}, !.asked = @ \cup {c}]
       IN  source' = Append([source EXCEPT ![n] = new],
                            [new EXCEPT !.parent = n, !.snapshot = None])
    /\ UNCHANGED <<table, call, job>>

\* apply_predicate.  A condition that does not compile, or a schema that cannot
\* be discovered, changes nothing.
ApplyPredicate(n, c) ==
    /\ call = None /\ MayPush
    /\ Compiles(n, c)
    /\ source' = Append(source, [source[n] EXCEPT !.parent = n, !.predicate = @ \cup {c},
                                                  !.asked = @ \cup {c}, !.snapshot = None])
    /\ UNCHANGED <<table, call, job>>

\* A projection cannot restore columns.
MayProject(n, map) ==
    map # None /\ source[n].projection # None =>
        Range(map) \subseteq Range(source[n].projection)

\* Mutant: a clone keeps the discovery of its source.
KeptSnapshotAlways(n, columns) == source[n].snapshot

\* A projection that changes nothing shares the discovery of its source.
KeptSnapshot(n, columns) ==
    IF columns = source[n].projection THEN source[n].snapshot ELSE None

\* Mutant: an empty projection empties the physical columns as well.
ApplyProjectionOfNothing(n, map) ==
    /\ call = None /\ Len(source) < MaxSources
    /\ MayProject(n, map)
    /\ LET columns == IF map = None THEN source[n].projection ELSE map
       IN  source' = Append(source,
               [source[n] EXCEPT !.parent = n, !.projection = columns, !.columns = columns,
                                 !.snapshot = KeptSnapshot(n, columns)])
    /\ UNCHANGED <<table, call, job>>

\* apply_projection: an empty projection keeps the physical columns.
ApplyProjection(n, map) ==
    /\ call = None /\ Len(source) < MaxSources
    /\ MayProject(n, map)
    /\ LET columns == IF map = None THEN source[n].projection ELSE map
       IN  source' = Append(source,
               [source[n] EXCEPT !.parent = n,
                                 !.projection = columns,
                                 !.columns = IF columns = <<>> THEN @ ELSE columns,
                                 !.snapshot = KeptSnapshot(n, columns)])
    /\ UNCHANGED <<table, call, job>>

-----------------------------------------------------------------------------
(* get_read_tasks and DorisPlanner.                                        *)

\* Plan from the cached snapshot, or discover.
GetReadTasks(n, parallelism, limit) ==
    /\ call = None
    /\ LongChain => limit = None
    /\ call' = [source |-> n, parallelism |-> parallelism, limit |-> limit, schema |-> None,
                step |-> IF source[n].snapshot = None THEN "describe" ELSE "group"]
    /\ UNCHANGED <<table, source, job>>

Discovered(schema, tablets) ==
    /\ source' = [source EXCEPT ![call.source].snapshot =
                     [schema |-> schema, tablets |-> tablets, base |-> table.rows]]
    /\ call' = [call EXCEPT !.step = "group", !.schema = schema]

\* describe_schema; an external table has no query plan.
Describe ==
    /\ call # None /\ call.step = "describe"
    /\ LET columns == source[call.source].columns
       IN  /\ Describable(columns)
           /\ IF source[call.source].external
              THEN Discovered(SchemaOf(columns), None)
              ELSE /\ call' = [call EXCEPT !.step = "query_plan", !.schema = SchemaOf(columns)]
                   /\ UNCHANGED source
    /\ UNCHANGED <<table, job>>

Matches(r, predicate) == predicate \subseteq r.meets

\* fetch_tablet_ids: Doris prunes no tablet that has a row the query wants.
QueryPlan ==
    /\ call # None /\ call.step = "query_plan"
    /\ LET wanted == {r \in table.rows : Matches(r, source[call.source].predicate)}
       IN  \E tablets \in SUBSET Tablets :
              /\ {r.tablet : r \in wanted} \subseteq tablets
              /\ Discovered(call.schema, tablets)
    /\ UNCHANGED <<table, job>>

\* The query plan fails, but not for credentials, permission or TLS.
QueryPlanUnavailable ==
    /\ call # None /\ call.step = "query_plan"
    /\ SingleTask
    /\ Discovered(call.schema, None)
    /\ UNCHANGED <<table, job>>

\* Discovery raises.  Nothing is cached and the caller may try again.
DiscoveryFails ==
    /\ call # None /\ call.step \in {"describe", "query_plan"}
    /\ call' = None
    /\ UNCHANGED <<table, source, job>>

Smaller(a, b) == IF a <= b THEN a ELSE b

\* Mutant: the tablets left over go to no group.
GroupTabletsEven(tablets, parallelism) ==
    LET count == Smaller(parallelism, (Cardinality(tablets) + TabletSize - 1) \div TabletSize)
        size == Cardinality(tablets) \div count
        position(t) == Cardinality({u \in tablets : u < t})
    IN  IF tablets = {} THEN <<>>
        ELSE [i \in 1..count |-> {t \in tablets : position(t) \in ((i - 1) * size)..(i * size - 1)}]

\* group_tablets, in the closed form TabletGroups proves of its loop: the first
\* size % count groups have a tablet more.
GroupTablets(tablets, parallelism) ==
    LET count == Smaller(parallelism, (Cardinality(tablets) + TabletSize - 1) \div TabletSize)
        first(i) == i * (Cardinality(tablets) \div count)
                    + Smaller(i, Cardinality(tablets) % count)
        position(t) == Cardinality({u \in tablets : u < t})
    IN  IF tablets = {} THEN <<>>
        ELSE [i \in 1..count |->
                 {t \in tablets : position(t) >= first(i - 1) /\ position(t) < first(i)}]

\* Mutant: the tasks share the budget.
TaskLimitShared(limit, splits) == IF limit = None THEN None ELSE limit \div Len(splits)

\* Every split gets the whole budget.
TaskLimit(limit, splits) == limit

\* Plan from the snapshot: a task per split, or one task that reads nothing.
MakeTasks ==
    /\ call # None /\ call.step = "group"
    /\ LET s == source[call.source]
           splits == IF s.snapshot.tablets = None THEN <<None>>
                     ELSE GroupTablets(s.snapshot.tablets, call.parallelism)
           schema == IF s.projection = <<>> THEN <<>> ELSE s.snapshot.schema
           empty == splits = <<>> \/ call.limit = 0
           nothing == [state |-> "read", columns |-> schema, rows |-> {}]
       IN  job' = [source |-> call.source, columns |-> s.columns, predicate |-> s.predicate,
                   planned |-> s.snapshot.schema, schema |-> schema, base |-> s.snapshot.base,
                   budget |-> call.limit,
                   limit |-> IF empty THEN 0 ELSE TaskLimit(call.limit, splits),
                   splits |-> IF empty THEN <<{}>> ELSE splits,
                   result |-> IF empty THEN <<nothing>>
                              ELSE [i \in DOMAIN splits |-> Unread]]
    /\ call' = None
    /\ UNCHANGED <<table, source>>

-----------------------------------------------------------------------------
(* The readers of the splits, on the workers.                              *)

\* Mutant: values are taken by position without a look at the names.
ColumnsFitAlways(columns) == TRUE

\* _validate_result_columns
ColumnsFit(columns) == columns = job.planned

\* The rows of a split at this moment.
Found(split) ==
    {r \in table.rows : /\ split = None \/ r.tablet \in split
                        /\ Matches(r, job.predicate)}

\* The query of a split succeeds; its columns are looked at when rows come.
ReadSplit(i) ==
    /\ job # None /\ job.result[i] = Unread
    /\ Describable(job.columns)
    /\ {ColumnOf[c] : c \in job.predicate} \subseteq Range(table.columns)
    /\ \E rows \in SUBSET Found(job.splits[i]) :
          /\ IF job.limit = None THEN rows = Found(job.splits[i])
             ELSE Cardinality(rows) = Smaller(job.limit, Cardinality(Found(job.splits[i])))
          /\ rows # {} => ColumnsFit(SchemaOf(job.columns))
          /\ job' = [job EXCEPT !.result[i] =
                [state |-> "read", rows |-> rows,
                 columns |-> IF rows = {} \/ job.schema = <<>> THEN job.schema
                             ELSE SchemaOf(job.columns)]]
    /\ UNCHANGED <<table, source, call>>

\* The reader fails: on the columns, on a column that is gone, or for any other reason.
ReadFails(i) ==
    /\ job # None /\ job.result[i] = Unread
    /\ job' = [job EXCEPT !.result[i].state = "failed"]
    /\ UNCHANGED <<table, source, call>>

-----------------------------------------------------------------------------
(* The table.                                                              *)

Insert(r) ==
    /\ r \notin table.rows /\ ~LongChain
    /\ table' = [table EXCEPT !.rows = @ \cup {r}]
    /\ UNCHANGED <<source, call, job>>

Alter ==
    /\ table.columns = InitialColumns
    /\ table' = [table EXCEPT !.columns = AlteredColumns]
    /\ UNCHANGED <<source, call, job>>

Next ==
    \/ \E n \in DOMAIN source :
          \/ \E c \in Conditions : ApplyPredicate(n, c)
          \/ \E map \in Projections : ApplyProjection(n, map)
          \/ \E p \in Parallelism, limit \in RowLimits : GetReadTasks(n, p, limit)
    \/ Describe \/ QueryPlan \/ QueryPlanUnavailable \/ DiscoveryFails \/ MakeTasks
    \/ job # None /\ \E i \in DOMAIN job.splits : ReadSplit(i) \/ ReadFails(i)
    \/ \E r \in Rows : Insert(r)
    \/ Alter

Spec == Init /\ [][Next]_vars

-----------------------------------------------------------------------------
(* Correctness.                                                            *)

RowsOf(i) == job.result[i].rows

AllRead == \A i \in DOMAIN job.splits : job.result[i].state = "read"

Wanted == {r \in job.base : Matches(r, source[job.source].asked)}

\* The tasks together are the query Ray asked for: no row is read by two of them or
\* in spite of a condition Ray has handed over, whatever happens to the table; and
\* when nothing happens to it no row is missing, pruned tablets and all.  "Each tablet
\* group receives the full per-task budget" (read-data.md): no task exceeds it, and
\* an undisturbed read falls short of it only if the query does.
ReadIsTheQuery ==
    job # None =>
        /\ \A i, j \in DOMAIN job.splits : i # j => RowsOf(i) \cap RowsOf(j) = {}
        /\ \A i \in DOMAIN job.splits :
              /\ \A r \in RowsOf(i) : Matches(r, source[job.source].asked)
              /\ job.budget # None => Cardinality(RowsOf(i)) <= job.budget
        /\ table.rows = job.base /\ AllRead =>
              LET read == UNION {RowsOf(i) : i \in DOMAIN job.splits}
              IN  IF job.budget = None THEN read = Wanted
                  ELSE Cardinality(read) >= Smaller(job.budget, Cardinality(Wanted))

\* The schema Ray is told is the projection it asked for, never that of the source
\* the projected one was derived from, and a block never holds other columns, although
\* SELECT * meets a table altered since DESCRIBE.
BlocksAreTheProjection ==
    /\ TypeOK
    /\ job # None =>
          /\ source[job.source].projection # None => job.schema = source[job.source].projection
          /\ \A i \in DOMAIN job.splits :
                job.result[i].state = "read" => job.result[i].columns = job.schema

\* Dataset branches keep their own state: a datasource never changes but for its
\* first discovery, which it keeps.
BranchesAreIndependent ==
    [][\A n \in DOMAIN source :
          /\ n \in DOMAIN source'
          /\ source[n].snapshot # None => source'[n] = source[n]
          /\ [source'[n] EXCEPT !.snapshot = None] = [source[n] EXCEPT !.snapshot = None]]_source
=============================================================================
