----------------------------- MODULE NativeRead -----------------------------
(***************************************************************************)
(* read_doris of _api.py with automatic native reads, and _native.py: the  *)
(* choice of a route, the enumeration of files directory by directory, the *)
(* footers, the submission to Ray's Parquet reader and the read tasks,     *)
(* against a storage that may change at any time.  Discovery of metadata   *)
(* (ExternalMetadata, HivePartitions) is one step here.                    *)
(*                                                                         *)
(* A file is where it lies, what its name looks like, and its content.     *)
(***************************************************************************)
EXTENDS Naturals, Sequences, FiniteSets, FiniteSetsExt

CONSTANTS
    Tables,         \* a table: keyed or not, place of its root, its partitions (the
                    \* root alone if it has no keys)
    Dirs,           \* Dirs[d]: place of a location, and the value its path spells
    Files,          \* Files[f]: directory and kind of an entry, suffix of its name;
                    \* entries are numbered in the order of their paths
    Contents,       \* schema and rows a file may have
    Published,      \* those a file may have before the enumeration
    Readers,        \* Ray's Parquet readers, in the contexts they may run in
    MaxFiles,       \* options.max_files
    MaxChanges,     \* bound on the changes to storage
    None            \* no partition value

Places == {"standard", "custom", "foreign", "levels", "unsupported", "unqualified"}

DataFiles == {f \in DOMAIN Files : Files[f].kind = "file"}

ASSUME NativeReadAssumption ==
    /\ MaxFiles \in Nat \ {0} /\ MaxChanges \in Nat
    /\ \A d \in DOMAIN Dirs : Dirs[d].place \in Places
    /\ IsFiniteSet(DOMAIN Files) /\ DOMAIN Files \subseteq Nat \ {0}
    /\ \A f \in DOMAIN Files : /\ Files[f].dir \in DOMAIN Dirs
                               /\ Files[f].kind \in {"file", "hidden", "directory"}
                               /\ Files[f].suffix \in BOOLEAN
    /\ \A t \in Tables : /\ t.keyed \in BOOLEAN /\ t.root \in Places
                         /\ t.parts \in Seq({t.parts[i] : i \in DOMAIN t.parts})
                         /\ \A i \in DOMAIN t.parts : /\ t.parts[i].dir \in DOMAIN Dirs
                                                      /\ ~t.keyed => t.parts[i].value = None
    /\ Contents \subseteq [schema : {"same", "castable", "other"}, rows : {0, 1}]
    /\ \A f \in DataFiles : Published[f] \subseteq Contents
    /\ Readers \subseteq {"legacy", "v1", "v2", "v2 with data column path", "unknown"}

VARIABLES
    table,      \* the registered table
    reader,     \* what the installed Ray and its context offer
    present,    \* the entries that exist
    content,    \* content[f] of the files
    step,       \* where the driver is
    index,      \* the partition, then the file, that is next
    planned,    \* plan.files
    footers,    \* rows the footers promise
    read,       \* read[f]: what the tasks did with the planned files
    output,     \* rows delivered: file, partition value, content
    path,       \* "undecided", then "native", "doris" or "error"
    found,      \* what came to light so far (history)
    visible,    \* the files that were there when their directories were listed (history)
    changes,    \* changes made to storage
    stable      \* nothing has changed since the enumeration began (history)

vars == <<table, reader, present, content, step, index, planned, footers, read, output, path, found,
          visible, changes, stable>>
storage == <<present, content, changes, stable>>
inputs == <<table, reader>>
decision == <<path, found>>
plan == <<planned, visible>>
result == <<read, output>>

Rows == [file : DataFiles, value : {Dirs[d].value : d \in DOMAIN Dirs} \cup {None},
         content : Contents]

TypeOK ==
    /\ table \in Tables /\ reader \in Readers
    /\ present \subseteq DOMAIN Files
    /\ content \in [DataFiles -> Contents]
    /\ step \in {"route", "discover", "root", "list", "reader", "footers", "submit", "tasks", "end"}
    /\ index \in Nat \ {0}
    /\ step = "list" => index <= Len(table.parts)
    /\ planned \subseteq DataFiles /\ Cardinality(planned) <= MaxFiles
    /\ footers \in 0..Cardinality(planned)
    /\ read \in [DataFiles -> {"no", "yes", "filtered", "ignored"}]
    /\ output \subseteq Rows
    /\ path \in {"undecided", "native", "doris", "error"}
    /\ path = "undecided" <=> step \notin {"tasks", "end"}
    /\ found \subseteq {"inapplicable", "contradiction", "denied", "failed"}
    /\ visible \subseteq DataFiles
    /\ changes \in 0..MaxChanges
    /\ stable \in BOOLEAN

Init ==
    /\ table \in Tables
    /\ reader \in Readers
    /\ present \in SUBSET DOMAIN Files
    /\ content \in [DataFiles -> Contents]
    /\ \A f \in DataFiles : content[f] \in Published[f]
    /\ step = "route"
    /\ index = 1
    /\ planned = {} /\ visible = {}
    /\ footers = 0
    /\ read = [f \in DataFiles |-> "no"]
    /\ output = {}
    /\ path = "undecided"
    /\ found = {}
    /\ changes = 0
    /\ stable = TRUE

\* _NativeReadNotApplicableError, caught by read_doris: read through Doris.
NotApplicable == step' = "end" /\ path' = "doris" /\ found' = found \cup {"inapplicable"}

\* Any other error leaves read_doris.
Raise(finding) == step' = "end" /\ path' = "error" /\ found' = found \cup {finding}

\* A Dataset of native rows, or one that is known to be empty.
Return(next) == step' = next /\ path' = "native" /\ UNCHANGED found

Proceed(next) == step' = next /\ UNCHANGED decision

-----------------------------------------------------------------------------
(* read_doris and read_native.                                             *)

\* The flag is off, the catalog internal, or an option asks for Doris.
Route ==
    /\ step = "route"
    /\ NotApplicable \/ Proceed("discover")
    /\ UNCHANGED <<inputs, storage, index, plan, footers, result>>

\* Ray's signatures, discover_external, and the projection.
Discover ==
    /\ step = "discover"
    /\ \/ NotApplicable
       \/ \E finding \in {"contradiction", "denied", "failed"} : Raise(finding)
       \/ Proceed("root")
    /\ UNCHANGED <<inputs, storage, index, plan, footers, result>>

\* Partitioning as Ray offers it, the location of the table, and a filesystem for it;
\* without one, or with one of another type, planning fails.
PlanRoot ==
    /\ step = "root"
    /\ \/ table.keyed /\ NotApplicable
       \/ table.root = "unsupported" /\ NotApplicable
       \/ table.root = "unqualified" /\ Raise("contradiction")
       \/ /\ table.root \notin {"unsupported", "unqualified"}
          /\ Raise("failed") \/ Proceed(IF table.parts = <<>> THEN "reader" ELSE "list")
    /\ UNCHANGED <<inputs, storage, index, plan, footers, result>>

Location == table.parts[index]
Entries == {f \in present : Files[f].dir = Location.dir /\ Files[f].kind # "hidden"}

\* Mutant: a path is taken to spell the values that are registered.
MislabeledNever == FALSE

\* Ray's parser reads other values from the path than HMS has registered.
Mislabeled == table.keyed /\ Dirs[Location.dir].value # Location.value

Duplicate == \E i \in 1..index - 1 : table.parts[i].dir = Location.dir

\* Mutant: enumeration stops at the limit and keeps what it has.
TooManyNever(files) == FALSE

TooMany(files) == Cardinality(files) > MaxFiles

\* One turn of the loop over locations; a listing that fails is an error.
PlanPartition ==
    /\ step = "list"
    /\ LET files == planned \cup Entries
           unfit == \/ Dirs[Location.dir].place \in {"unsupported", "foreign"}
                    \/ table.keyed /\ Dirs[Location.dir].place \in {"custom", "levels"}
           last == index = Len(table.parts)
       IN  IF Dirs[Location.dir].place = "unqualified" \/ (~unfit /\ Mislabeled)
           THEN Raise("contradiction") /\ UNCHANGED <<index, plan>>
           ELSE IF unfit \/ Duplicate THEN NotApplicable /\ UNCHANGED <<index, plan>>
           ELSE \/ Raise("failed") /\ UNCHANGED <<index, plan>>
                \/ IF ~(Entries \subseteq DataFiles) \/ TooMany(files)
                   THEN NotApplicable /\ UNCHANGED <<index, plan>>
                   ELSE /\ planned' = files
                        /\ visible' = visible \cup Entries
                        /\ index' = IF last THEN 1 ELSE index + 1
                        /\ Proceed(IF last THEN "reader" ELSE "list")
    /\ UNCHANGED <<inputs, storage, footers, result>>

\* Mutant: files without suffix are given to the V2 reader.
V2CannotReadPathOnly == reader = "v2 with data column path"

\* What the V2 reader would drop: a data column "path", and files without suffix.
V2CannotRead ==
    \/ reader = "v2 with data column path"
    \/ reader = "v2" /\ \E f \in planned : ~Files[f].suffix

\* The beginning of read_native_plan, up to the footers.
ChooseReader ==
    /\ step = "reader"
    /\ IF planned = {} THEN Return("end")
       ELSE IF reader = "unknown" \/ V2CannotRead THEN NotApplicable
       ELSE Proceed("footers")
    /\ UNCHANGED <<inputs, storage, index, plan, footers, result>>

\* Mutant: a footer may differ in what a cast can repair.
FooterFitsCastable(f) == content[f].schema \in {"same", "castable"}

\* Names and types of the footer are those of Doris and HMS, up to a timestamp's unit.
FooterFits(f) == content[f].schema = "same"

\* _validate_file_schemas: the next footer, in the order of the paths.
Footer ==
    /\ step = "footers"
    /\ LET rest == {f \in planned : f >= index}
       IN  IF rest = {} THEN Proceed("submit") /\ UNCHANGED <<index, footers>>
           ELSE \/ Raise("failed") /\ UNCHANGED <<index, footers>>
                \/ /\ Min(rest) \in present /\ ~FooterFits(Min(rest))
                   /\ Raise("contradiction")
                   /\ UNCHANGED <<index, footers>>
                \/ /\ Min(rest) \in present /\ FooterFits(Min(rest))
                   /\ index' = Min(rest) + 1
                   /\ footers' = footers + content[Min(rest)].rows
                   /\ UNCHANGED <<step, decision>>
    /\ UNCHANGED <<inputs, storage, plan, result>>

\* Mutant: a file that is gone is left out.
ParquetOptionsIgnoring ==
    [ignoreMissing |-> TRUE,
     scheme |-> IF table.keyed THEN "keys" ELSE IF reader = "legacy" THEN "empty" ELSE "none"]

\* native_parquet_options.  A reader that cannot ignore missing files needs a scheme.
ParquetOptions ==
    [ignoreMissing |-> FALSE,
     scheme |-> IF table.keyed THEN "keys" ELSE IF reader = "legacy" THEN "empty" ELSE "none"]

\* No rows at all, a reader for all files, or an error of Ray; Ray may lack what the
\* empty scheme takes.
Submit ==
    /\ step = "submit"
    /\ IF footers = 0 THEN Return("end")
       ELSE \/ Return("tasks")
            \/ Raise("failed")
            \/ ParquetOptions.scheme = "empty" /\ NotApplicable
    /\ UNCHANGED <<inputs, storage, index, plan, footers, result>>

-----------------------------------------------------------------------------
(* Ray's readers, and _canonicalize_batch after them.                      *)

\* Mutant: a read that breaks starts over through Doris.
BreakReplays == step' = "end" /\ path' = "doris" /\ found' = found \cup {"failed"}

Break == step' = "end" /\ path' = "error" /\ found' = found \cup {"failed"}

Filtered(f) == reader = "v2" /\ ~Files[f].suffix

\* A file that is filtered, or gone and ignored, has no rows, and nobody is told.
\* Otherwise its rows get the values its path spells, or the read breaks because the
\* file is gone or does not cast to the schema.
ReadFile(f) ==
    /\ step = "tasks"
    /\ f \in planned /\ read[f] = "no"
    /\ \/ Filtered(f) /\ read' = [read EXCEPT ![f] = "filtered"] /\ UNCHANGED <<output, step, decision>>
       \/ /\ f \notin present /\ ParquetOptions.ignoreMissing
          /\ read' = [read EXCEPT ![f] = "ignored"]
          /\ UNCHANGED <<output, step, decision>>
       \/ /\ f \in present /\ ~Filtered(f) /\ content[f].schema # "other"
          /\ read' = [read EXCEPT ![f] = "yes"]
          /\ output' = output \cup
                {[file |-> f, content |-> content[f],
                  value |-> IF ParquetOptions.scheme = "keys" THEN Dirs[Files[f].dir].value ELSE None]
                 : n \in 1..content[f].rows}
          /\ UNCHANGED <<step, decision>>
       \/ /\ ~Filtered(f)
          /\ IF f \in present THEN content[f].schema = "other" ELSE ~ParquetOptions.ignoreMissing
          /\ Break
          /\ UNCHANGED result
    /\ UNCHANGED <<inputs, storage, index, plan, footers>>

\* Anything else goes wrong.
ReadFails ==
    /\ step = "tasks"
    /\ Break
    /\ UNCHANGED <<inputs, storage, index, plan, footers, result>>

Complete ==
    /\ step = "tasks"
    /\ \A f \in planned : read[f] # "no"
    /\ step' = "end"
    /\ UNCHANGED <<inputs, storage, index, plan, footers, result, decision>>

-----------------------------------------------------------------------------
(* Storage, changed by others.                                             *)

\* A change before the enumeration leads to another initial state.
Change ==
    /\ step \notin {"route", "discover", "root", "end"} /\ changes < MaxChanges
    /\ changes' = changes + 1
    /\ stable' = FALSE
    /\ UNCHANGED <<inputs, step, index, plan, footers, result, decision>>

Publish(f) ==
    /\ Change
    /\ f \notin present
    /\ present' = present \cup {f}
    /\ UNCHANGED content

Replace(f, c) ==
    /\ Change
    /\ f \in present /\ c # content[f]
    /\ content' = [content EXCEPT ![f] = c]
    /\ UNCHANGED present

Delete(f) ==
    /\ Change
    /\ f \in present
    /\ present' = present \ {f}
    /\ UNCHANGED content

Ended == step = "end" /\ UNCHANGED vars

Driver ==
    Route \/ Discover \/ PlanRoot \/ PlanPartition \/ ChooseReader \/ Footer \/ Submit

Tasks == (\E f \in DataFiles : ReadFile(f)) \/ Complete

Next ==
    \/ Driver \/ Tasks \/ ReadFails
    \/ \E f \in DOMAIN Files : Publish(f) \/ Delete(f)
    \/ \E f \in DataFiles, c \in Contents : Replace(f, c)
    \/ Ended

SafeSpec == Init /\ [][Next]_vars

\* The driver's requests have timeouts, and Ray ends every task.
Spec == SafeSpec /\ WF_vars(Driver) /\ WF_vars(Tasks)

-----------------------------------------------------------------------------
(* Correctness.                                                            *)

Delivered == step = "end" /\ path = "native"

\* The rows that lie where a partition is registered, with the value it is registered with.
RowsOf(partition) ==
    {[file |-> f, content |-> content[f], value |-> partition.value] :
        f \in {f \in DataFiles \cap present : Files[f].dir = partition.dir /\ content[f].rows = 1}}

\* native-read.md: "Files, schema and registered partitions must remain unchanged
\* throughout consumption."  If they do, a read delivers every row of every visible
\* file of every registered partition, once, with the values HMS has registered and
\* from files of exactly the table's schema.
StableReadIsTheTable ==
    Delivered /\ stable =>
        /\ \A row \in output : row.content.schema = "same"
        /\ output = UNION {RowsOf(table.parts[i]) : i \in DOMAIN table.parts}

\* Even if they do not, no file that was listed is left out without an error: "no
\* silent omission" of a file that vanished, or that the reader would filter.
NothingListedIsOmitted ==
    /\ TypeOK
    /\ Delivered /\ footers > 0 => \A f \in visible : read[f] = "yes"

\* "an error occurs after native execution starts: raise the error without replaying
\* through Doris", and only a known limitation leads to Doris before that.
Selection == INSTANCE SourceSelection
ImplementsSourceSelection == Selection!Spec
=============================================================================
