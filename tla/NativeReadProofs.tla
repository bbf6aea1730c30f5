--------------------------- MODULE NativeReadProofs ---------------------------
(***************************************************************************)
(* Proofs about NativeRead, for every finite set of files, all tables,     *)
(* readers and contents, and any number of changes to storage.  The        *)
(* inductive invariant, IInv, says how much of the table is planned,       *)
(* checked and read at every step: of what was listed, in any case, and of *)
(* what is there, as long as storage stays as it is.                       *)
(***************************************************************************)
EXTENDS NativeRead, FiniteSetTheorems, TLAPS

Enumerating == {"route", "discover", "root", "list"}
Deciding == Enumerating \cup {"reader", "footers", "submit"}

\* Nothing speaks against a read that is undecided or native; tasks run for native reads.
NothingAgainst ==
    /\ path \in {"undecided", "native"} => found = {}
    /\ step = "tasks" => path = "native"

\* What every step finds of the plan and of the result.
Progress ==
    /\ planned = visible
    /\ step \in {"route", "discover", "root"} => stable /\ planned = {}
    /\ step \in {"route", "discover", "root", "reader"} => index = 1
    /\ step \in Enumerating \cup {"reader"} => footers = 0
    /\ step = "footers" => footers <= Cardinality({f \in planned : f < index})
    /\ step \in Deciding => output = {} /\ \A f \in DataFiles : read[f] = "no"
    /\ step \in {"footers", "submit", "tasks"} => ~V2CannotRead

\* The tasks skip no planned file.
NoneSkipped ==
    /\ step = "tasks" => \A f \in planned : read[f] \in {"no", "yes"}
    /\ Delivered /\ footers > 0 => \A f \in planned : read[f] = "yes"

\* The first n partitions are listed: their files are planned, and they are where HMS has
\* registered them.
Listed(n) ==
    /\ planned = {f \in DataFiles \cap present :
                     \E i \in 1..n : Files[f].dir = table.parts[i].dir}
    /\ table.keyed => \A i \in 1..n : Dirs[table.parts[i].dir].value = table.parts[i].value

\* The footers of these files fit, and rows in them were counted.
Checked(files) ==
    /\ \A f \in files : content[f].schema = "same"
    /\ footers = 0 => \A f \in files : content[f].rows = 0

\* The rows of the files that were read.
RowsRead ==
    {[file |-> f, content |-> content[f],
      value |-> IF table.keyed THEN Dirs[Files[f].dir].value ELSE None]
     : f \in {f \in planned : read[f] = "yes" /\ content[f].rows = 1}}

\* As long as storage stays as it is.
Undisturbed ==
    stable =>
        /\ step = "list" => Listed(index - 1)
        /\ step \in {"reader", "footers", "submit", "tasks"} => Listed(Len(table.parts))
        /\ step = "footers" => Checked({f \in planned : f < index})
        /\ step \in {"submit", "tasks"} => Checked(planned)
        /\ step = "tasks" => output = RowsRead

IInv ==
    /\ TypeOK
    /\ NothingAgainst
    /\ Progress
    /\ NoneSkipped
    /\ Undisturbed
    /\ StableReadIsTheTable

-----------------------------------------------------------------------------
(* Files.                                                                  *)

\* The least number principle: induction, without an operator as parameter.
LEMMA LeastNat == ASSUME NEW T \in SUBSET Nat, T # {} PROVE \E n \in T : \A m \in T : n <= m
<1> DEFINE R == {ss \in Nat \X Nat : ss[1] < ss[2]}
<1>1. IsWellFoundedOn(R, Nat)
  BY NatLessThanWellFounded DEF OpToRel
<1> HIDE DEF R
<1>2. PICK x \in T : \A y \in T : ~(<<y, x>> \in R)
  BY <1>1, WFMin
<1>3. \A y \in T : y < x => <<y, x>> \in R
  BY DEF R
<1>4. \A y \in T : ~(y < x) /\ y \in Nat /\ x \in Nat
  BY <1>2, <1>3
<1>5. QED
  BY <1>4

\* Min is the first of some files.
LEMMA FirstFile ==
  ASSUME NEW files \in SUBSET DataFiles, files # {}
  PROVE  Min(files) \in files /\ \A f \in files : Min(files) <= f
<1>1. files \in SUBSET Nat
  BY NativeReadAssumption DEF DataFiles
<1>2. \E n \in files : \A m \in files : n <= m
  BY <1>1, LeastNat
<1>3. QED
  BY <1>2 DEF Min

\* There are finitely many files, numbered from one, each in a location Dirs knows.
LEMMA DataFilesNumbered ==
  /\ IsFiniteSet(DataFiles) /\ DataFiles \subseteq Nat \ {0} /\ DataFiles \subseteq DOMAIN Files
  /\ \A f \in DataFiles : Files[f].dir \in DOMAIN Dirs
<1>1. DataFiles \subseteq DOMAIN Files
  BY DEF DataFiles
<1>2. IsFiniteSet(DataFiles)
  BY <1>1, NativeReadAssumption, FS_Subset
<1>3. QED
  BY <1>1, <1>2, NativeReadAssumption

\* A set of files has a number of elements.
LEMMA FilesCount ==
  ASSUME NEW files \in SUBSET DataFiles
  PROVE  IsFiniteSet(files) /\ Cardinality(files) \in Nat
  BY DataFilesNumbered, FS_Subset, FS_CardinalityType

\* Contents have a known schema and at most one row.
LEMMA ContentsKnown ==
  \A c \in Contents : c.schema \in {"same", "castable", "other"} /\ c.rows \in {0, 1}
  BY NativeReadAssumption

\* The partitions of a table.
LEMMA PartsKnown ==
  ASSUME NEW t \in Tables
  PROVE  /\ t.keyed \in BOOLEAN
         /\ Len(t.parts) \in Nat /\ DOMAIN t.parts = 1..Len(t.parts)
         /\ t.parts = <<>> <=> Len(t.parts) = 0
         /\ \A i \in 1..Len(t.parts) :
               t.parts[i].dir \in DOMAIN Dirs /\ (~t.keyed => t.parts[i].value = None)
<1>1. t.parts \in Seq({t.parts[i] : i \in DOMAIN t.parts})
  BY NativeReadAssumption
<1>2. Len(t.parts) \in Nat /\ DOMAIN t.parts = 1..Len(t.parts)
  BY <1>1
<1>3. t.parts = <<>> <=> Len(t.parts) = 0
  BY <1>1
<1>4. QED
  BY <1>2, <1>3, NativeReadAssumption

-----------------------------------------------------------------------------
(* The invariant, step by step.                                            *)

\* Before anything is asked.
LEMMA InitIInv == Init => IInv
<1> SUFFICES ASSUME Init PROVE IInv
  OBVIOUS
<1>1. Cardinality(planned) = 0
  BY FS_EmptySet DEF Init
<1>2. TypeOK
  <2>1. MaxFiles \in Nat /\ MaxChanges \in Nat
    BY NativeReadAssumption
  <2>2. /\ Cardinality(planned) <= MaxFiles /\ footers \in 0..Cardinality(planned)
        /\ index \in Nat \ {0} /\ changes \in 0..MaxChanges
    BY <1>1, <2>1 DEF Init
  <2>3. /\ content \in [DataFiles -> Contents]
        /\ read \in [DataFiles -> {"no", "yes", "filtered", "ignored"}]
    BY DEF Init
  <2>4. QED
    BY <2>2, <2>3 DEF Init, TypeOK
<1>3. NothingAgainst /\ NoneSkipped /\ Undisturbed /\ StableReadIsTheTable
  BY DEF Init, NothingAgainst, NoneSkipped, Undisturbed, StableReadIsTheTable, Delivered
<1>4. Progress
  BY DEF Init, Progress, Enumerating, Deciding
<1>5. QED
  BY <1>2, <1>3, <1>4 DEF IInv

\* What the steps leave alone.
Kept == UNCHANGED <<table, reader, present, content, changes, stable, index, planned, visible, footers>>

\* An end without rows: nothing is left to say of the read.
LEMMA Stops ==
  ASSUME IInv, Kept, UNCHANGED <<read, output>>, step' = "end", path' \in {"doris", "error"},
         found' \in SUBSET {"inapplicable", "contradiction", "denied", "failed"}
  PROVE  IInv'
<1>1. TypeOK'
  BY DEF IInv, TypeOK, Kept, Rows
<1>2. NothingAgainst' /\ NoneSkipped' /\ Undisturbed' /\ StableReadIsTheTable'
  BY DEF NothingAgainst, NoneSkipped, Undisturbed, StableReadIsTheTable, Delivered
<1>3. Progress'
  BY DEF IInv, Progress, Kept, Enumerating, Deciding
<1>4. QED
  BY <1>1, <1>2, <1>3 DEF IInv

\* The ends the code has are such.
LEMMA EndsStop ==
  ASSUME IInv, Kept, UNCHANGED <<read, output>>,
         NotApplicable \/ Break \/ \E finding \in {"contradiction", "denied", "failed"} : Raise(finding)
  PROVE  IInv'
<1>1. step' = "end" /\ path' \in {"doris", "error"}
  BY DEF NotApplicable, Break, Raise
<1>2. found' \in SUBSET {"inapplicable", "contradiction", "denied", "failed"}
  BY DEF NotApplicable, Break, Raise, IInv, TypeOK
<1>3. QED
  BY <1>1, <1>2, Stops

\* Up to the enumeration.
LEMMA OpeningKeeps ==
  ASSUME IInv, Route \/ Discover \/ PlanRoot PROVE IInv'
<1>1. Kept /\ UNCHANGED <<read, output>>
  BY DEF Route, Discover, PlanRoot, Kept, inputs, storage, plan, result
<1>2. CASE step' = "end"
  BY <1>1, <1>2, EndsStop DEF Route, Discover, PlanRoot, Proceed
<1>3. CASE step' # "end"
  <2>1. /\ step \in {"route", "discover", "root"} /\ UNCHANGED <<path, found>>
        /\ step' \in {"discover", "root", "list", "reader"}
        /\ step' = "list" => table.parts # <<>>
        /\ step' = "reader" => table.parts = <<>>
    BY <1>3 DEF Route, Discover, PlanRoot, Proceed, decision, NotApplicable, Raise
  <2>2. stable /\ planned = {} /\ planned = visible /\ index = 1 /\ footers = 0 /\ output = {}
        /\ \A f \in DataFiles : read[f] = "no"
    BY <2>1 DEF IInv, Progress, Enumerating, Deciding
  <2>3. table \in Tables
    BY DEF IInv, TypeOK
  <2>4. TypeOK'
    <3>1. step' = "list" => index' <= Len(table'.parts)
      BY <1>1, <2>1, <2>2, <2>3, PartsKnown DEF Kept
    <3>2. QED
      BY <1>1, <2>1, <3>1 DEF IInv, TypeOK, Kept, Rows
  <2>5. NothingAgainst'
    BY <2>1 DEF IInv, NothingAgainst
  <2>6. Progress'
    BY <1>1, <2>1, <2>2 DEF Progress, Kept, Enumerating, Deciding
  <2>7. NoneSkipped' /\ StableReadIsTheTable'
    BY <2>1 DEF NoneSkipped, StableReadIsTheTable, Delivered
  <2>8. Undisturbed'
    <3>1. step' = "list" => Listed(index - 1)'
      BY <1>1, <2>2 DEF Kept, Listed
    <3>2. step' = "reader" => Listed(Len(table.parts))'
      BY <1>1, <2>1, <2>2, <2>3, PartsKnown DEF Kept, Listed
    <3>3. QED
      BY <1>1, <2>1, <3>1, <3>2 DEF Undisturbed, Kept
  <2>9. QED
    BY <2>4, <2>5, <2>6, <2>7, <2>8 DEF IInv
<1>4. QED
  BY <1>2, <1>3

\* A partition whose files are added to the plan.
Lists ==
    /\ step = "list"
    /\ Entries \subseteq DataFiles /\ ~TooMany(planned \cup Entries) /\ ~Mislabeled
    /\ planned' = planned \cup Entries
    /\ visible' = visible \cup Entries
    /\ \/ index = Len(table.parts) /\ index' = 1 /\ step' = "reader"
       \/ index # Len(table.parts) /\ index' = index + 1 /\ step' = "list"
    /\ UNCHANGED <<path, found, table, reader, present, content, changes, stable, footers,
                   read, output>>

\* A partition ends planning or is added.
LEMMA PlanDoes ==
  ASSUME PlanPartition
  PROVE  \/ /\ Kept /\ UNCHANGED <<read, output>>
            /\ NotApplicable \/ \E finding \in {"contradiction", "denied", "failed"} : Raise(finding)
         \/ Lists
<1> DEFINE files == planned \cup Entries
           unfit == \/ Dirs[Location.dir].place \in {"unsupported", "foreign"}
                    \/ table.keyed /\ Dirs[Location.dir].place \in {"custom", "levels"}
           last == index = Len(table.parts)
           wrong == Dirs[Location.dir].place = "unqualified" \/ (~unfit /\ Mislabeled)
<1>1. /\ step = "list"
      /\ UNCHANGED <<table, reader, present, content, changes, stable, footers, read, output>>
      /\ IF wrong
         THEN Raise("contradiction") /\ UNCHANGED <<index, plan>>
         ELSE IF unfit \/ Duplicate THEN NotApplicable /\ UNCHANGED <<index, plan>>
         ELSE \/ Raise("failed") /\ UNCHANGED <<index, plan>>
              \/ IF ~(Entries \subseteq DataFiles) \/ TooMany(files)
                 THEN NotApplicable /\ UNCHANGED <<index, plan>>
                 ELSE /\ planned' = files
                      /\ visible' = visible \cup Entries
                      /\ index' = IF last THEN 1 ELSE index + 1
                      /\ Proceed(IF last THEN "reader" ELSE "list")
  BY DEF PlanPartition, inputs, storage, result
<1>2. ~wrong /\ ~unfit => ~Mislabeled
  OBVIOUS
<1> HIDE DEF wrong, unfit
<1>3. CASE UNCHANGED <<index, plan>>
  <2>1. Kept
    BY <1>1, <1>3 DEF Kept, plan
  <2>2. CASE NotApplicable \/ Raise("contradiction") \/ Raise("failed")
    BY <1>1, <2>1, <2>2
  <2>3. CASE /\ ~wrong /\ ~unfit /\ Entries \subseteq DataFiles /\ ~TooMany(files)
             /\ planned' = files
             /\ visible' = visible \cup Entries
             /\ index' = IF last THEN 1 ELSE index + 1
             /\ Proceed(IF last THEN "reader" ELSE "list")
    BY <1>1, <1>2, <2>3 DEF Lists, Proceed, decision
  <2>4. QED
    BY <1>1, <2>2, <2>3
<1>4. CASE /\ ~wrong /\ ~unfit /\ Entries \subseteq DataFiles /\ ~TooMany(files)
           /\ planned' = files
           /\ visible' = visible \cup Entries
           /\ index' = IF last THEN 1 ELSE index + 1
           /\ Proceed(IF last THEN "reader" ELSE "list")
  BY <1>1, <1>2, <1>4 DEF Lists, Proceed, decision
<1>5. QED
  BY <1>1, <1>3, <1>4

\* Listed, in the next state, of the first n partitions.
ListedNext(n) ==
    /\ planned' = {f \in DataFiles \cap present' :
                      \E i \in 1..n : Files[f].dir = table'.parts[i].dir}
    /\ table'.keyed => \A i \in 1..n : Dirs[table'.parts[i].dir].value = table'.parts[i].value

\* What is listed after one more partition.
LEMMA OneMoreListed ==
  ASSUME IInv, Lists, stable PROVE ListedNext(index)
<1>1. table \in Tables /\ index \in Nat \ {0} /\ index <= Len(table.parts)
  BY DEF IInv, TypeOK, Lists
<1>2. Listed(index - 1)
  BY DEF IInv, Undisturbed, Lists
<1>3. \A i \in 1..index : i = index \/ i \in 1..(index - 1)
  BY <1>1
<1>4. index \in 1..index /\ 1..(index - 1) \subseteq 1..index
  BY <1>1
<1>5. Entries = {f \in DataFiles \cap present : Files[f].dir = table.parts[index].dir}
  BY DataFilesNumbered DEF Lists, Entries, Location, DataFiles
<1>6. table.keyed => Dirs[table.parts[index].dir].value = table.parts[index].value
  BY DEF Lists, Mislabeled, Location
<1>7. planned \cup Entries = {f \in DataFiles \cap present :
                                 \E i \in 1..index : Files[f].dir = table.parts[i].dir}
  BY <1>2, <1>3, <1>4, <1>5 DEF Listed
<1>8. table.keyed => \A i \in 1..index : Dirs[table.parts[i].dir].value = table.parts[i].value
  BY <1>2, <1>3, <1>6 DEF Listed
<1>9. /\ planned' = {f \in DataFiles \cap present' :
                        \E i \in 1..index : Files[f].dir = table'.parts[i].dir}
      /\ table'.keyed =>
            \A i \in 1..index : Dirs[table'.parts[i].dir].value = table'.parts[i].value
  BY <1>7, <1>8 DEF Lists
<1>10. QED
  BY <1>9 DEF ListedNext

\* The enumeration.
LEMMA PlanPartitionKeeps ==
  ASSUME IInv, PlanPartition PROVE IInv'
<1>1. CASE ~Lists
  BY <1>1, PlanDoes, EndsStop
<1>2. CASE Lists
  <2>1. /\ table \in Tables /\ index \in Nat \ {0} /\ index <= Len(table.parts)
        /\ footers = 0 /\ output = {} /\ planned = visible
        /\ \A f \in DataFiles : read[f] = "no"
    BY <1>2 DEF IInv, TypeOK, Progress, Lists, Enumerating, Deciding
  <2>2. Len(table.parts) \in Nat
    BY <2>1, PartsKnown
  <2>3. planned' \in SUBSET DataFiles /\ visible' = planned'
    BY <1>2, <2>1 DEF IInv, TypeOK, Lists
  <2>4. Cardinality(planned') \in Nat
    BY <2>3, FilesCount
  <2>5. Cardinality(planned') <= MaxFiles
    <3>1. MaxFiles \in Nat
      BY NativeReadAssumption
    <3>2. ~(Cardinality(planned') > MaxFiles)
      BY <1>2 DEF Lists, TooMany
    <3>3. QED
      BY <2>4, <3>1, <3>2
  <2>6. TypeOK'
    <3>1. index' \in Nat \ {0} /\ (step' = "list" => index' <= Len(table'.parts))
      BY <1>2, <2>1, <2>2 DEF Lists
    <3>2. footers' \in 0..Cardinality(planned')
      BY <1>2, <2>1, <2>4 DEF Lists
    <3>3. QED
      BY <1>2, <2>3, <2>5, <3>1, <3>2 DEF Lists, IInv, TypeOK, Rows
  <2>7. NothingAgainst'
    BY <1>2 DEF Lists, IInv, NothingAgainst
  <2>8. Progress'
    BY <1>2, <2>1, <2>3 DEF Lists, Progress, Enumerating, Deciding
  <2>9. NoneSkipped' /\ StableReadIsTheTable'
    BY <1>2 DEF Lists, NoneSkipped, StableReadIsTheTable, Delivered
  <2>10. Undisturbed'
    <3> SUFFICES ASSUME stable' PROVE (/\ step = "list" => Listed(index - 1)
                                       /\ step = "reader" => Listed(Len(table.parts)))'
      BY <1>2 DEF Lists, Undisturbed
    <3>1. ListedNext(index)
      BY <1>2, OneMoreListed DEF Lists
    <3>2. /\ step' = "list" => index' - 1 = index
          /\ step' = "reader" => Len(table'.parts) = index
      BY <1>2, <2>1 DEF Lists
    <3>3. QED
      BY <3>1, <3>2 DEF Listed, ListedNext
  <2>11. QED
    BY <2>6, <2>7, <2>8, <2>9, <2>10 DEF IInv
<1>3. QED
  BY <1>1, <1>2

\* The choice of a reader.
LEMMA ChooseReaderKeeps ==
  ASSUME IInv, ChooseReader PROVE IInv'
<1>1. Kept /\ UNCHANGED <<read, output>> /\ step = "reader"
  BY DEF ChooseReader, Kept, inputs, storage, plan, result
<1>2. /\ index = 1 /\ footers = 0 /\ output = {} /\ planned = visible
      /\ \A f \in DataFiles : read[f] = "no"
      /\ planned \in SUBSET DataFiles
  BY <1>1 DEF IInv, TypeOK, Progress, Enumerating, Deciding
<1>3. CASE planned = {} /\ Return("end")
  <2>1. step' = "end" /\ path' = "native" /\ UNCHANGED found /\ path = "undecided"
    BY <1>1, <1>3 DEF Return, IInv, TypeOK
  <2>2. TypeOK'
    BY <1>1, <2>1 DEF IInv, TypeOK, Kept, Rows
  <2>3. NothingAgainst'
    BY <2>1 DEF IInv, NothingAgainst
  <2>4. Progress'
    BY <1>1, <1>2, <2>1 DEF Progress, Kept, Enumerating, Deciding
  <2>5. NoneSkipped' /\ Undisturbed'
    BY <1>1, <1>3, <2>1 DEF NoneSkipped, Undisturbed, Kept
  <2>6. StableReadIsTheTable'
    <3> SUFFICES ASSUME stable
                 PROVE  \A i \in DOMAIN table.parts : RowsOf(table.parts[i]) = {}
      BY <1>1, <1>2 DEF StableReadIsTheTable, Kept, RowsOf
    <3>1. table \in Tables
      BY DEF IInv, TypeOK
    <3>2. Listed(Len(table.parts))
      BY <1>1 DEF IInv, Undisturbed
    <3>3. \A f \in DataFiles \cap present, i \in DOMAIN table.parts :
             Files[f].dir # table.parts[i].dir
      BY <1>3, <3>1, <3>2, PartsKnown DEF Listed
    <3>4. QED
      BY <3>3 DEF RowsOf
  <2>7. QED
    BY <2>2, <2>3, <2>4, <2>5, <2>6 DEF IInv
<1>4. CASE ~V2CannotRead /\ Proceed("footers")
  <2>1. step' = "footers" /\ UNCHANGED <<path, found>> /\ path = "undecided"
    BY <1>1, <1>4 DEF Proceed, decision, IInv, TypeOK
  <2>2. TypeOK'
    BY <1>1, <2>1 DEF IInv, TypeOK, Kept, Rows
  <2>3. NothingAgainst'
    BY <2>1 DEF IInv, NothingAgainst
  <2>4. {f \in planned : f < index} = {}
    <3>1. \A f \in planned : f \in Nat \ {0}
      BY <1>2, DataFilesNumbered
    <3>2. \A f \in planned : ~(f < 1)
      BY <3>1
    <3>3. QED
      BY <1>2, <3>2
  <2>5. Cardinality({f \in planned : f < index}) = 0
    BY <2>4, FS_EmptySet
  <2>6. Progress'
    <3>1. ~V2CannotRead'
      BY <1>1, <1>4 DEF V2CannotRead, Kept
    <3>2. footers' <= Cardinality({f \in planned' : f < index'})
      BY <1>1, <1>2, <2>5 DEF Kept
    <3>3. QED
      BY <1>1, <1>2, <2>1, <3>1, <3>2 DEF Progress, Kept, Enumerating, Deciding
  <2>7. NoneSkipped' /\ StableReadIsTheTable'
    BY <2>1 DEF NoneSkipped, StableReadIsTheTable, Delivered
  <2>8. Undisturbed'
    <3>1. stable => Listed(Len(table.parts))
      BY <1>1 DEF IInv, Undisturbed
    <3>2. stable' => Listed(Len(table.parts))'
      BY <1>1, <3>1 DEF Listed, Kept
    <3>3. {f \in planned' : f < index'} = {}
      BY <1>1, <2>4 DEF Kept
    <3>4. QED
      BY <2>1, <3>2, <3>3 DEF Undisturbed, Checked
  <2>9. QED
    BY <2>2, <2>3, <2>6, <2>7, <2>8 DEF IInv
<1>5. QED
  BY <1>1, <1>3, <1>4, EndsStop DEF ChooseReader

\* A footer that fits.
Fits(f) ==
    /\ step = "footers" /\ f \in planned /\ f >= index
    /\ \A g \in planned : g >= index => f <= g
    /\ FooterFits(f)
    /\ index' = f + 1
    /\ footers' = footers + content[f].rows
    /\ UNCHANGED <<step, path, found, table, reader, present, content, changes, stable, planned,
                   visible, read, output>>

\* The files before the next footer are those before this one and its own.
LEMMA NextFooter ==
  ASSUME IInv, NEW f, Fits(f)
  PROVE  /\ {g \in planned' : g < index'} = {g \in planned : g < index} \cup {f}
         /\ f \in DataFiles /\ f \in Nat \ {0} /\ f \notin {g \in planned : g < index}
<1>1. planned \in SUBSET DataFiles /\ index \in Nat \ {0}
  BY DEF IInv, TypeOK
<1>2. f \in DataFiles /\ f \in Nat \ {0} /\ \A g \in planned : g \in Nat
  BY <1>1, DataFilesNumbered DEF Fits
<1>3. \A g \in planned : g < f + 1 <=> g < index \/ g = f
  BY <1>1, <1>2 DEF Fits
<1>4. {g \in planned : g < f + 1} = {g \in planned : g < index} \cup {f}
  BY <1>3 DEF Fits
<1>5. f \notin {g \in planned : g < index}
  <2>1. f >= index
    BY DEF Fits
  <2>2. ~(f < index)
    BY <1>1, <1>2, <2>1
  <2>3. QED
    BY <2>2
<1>6. planned' = planned /\ index' = f + 1
  BY DEF Fits
<1>7. QED
  BY <1>2, <1>4, <1>5, <1>6

\* The next footer, or the end of the footers.
LEMMA FooterKeeps ==
  ASSUME IInv, Footer PROVE IInv'
<1> DEFINE rest == {f \in planned : f >= index}
<1>1. /\ step = "footers"
      /\ UNCHANGED <<table, reader, present, content, changes, stable, planned, visible, read,
                     output>>
  BY DEF Footer, inputs, storage, plan, result
<1>2. /\ path = "undecided" /\ found = {} /\ output = {} /\ planned = visible
      /\ \A f \in DataFiles : read[f] = "no"
      /\ planned \in SUBSET DataFiles /\ index \in Nat \ {0}
      /\ footers \in Nat /\ footers <= Cardinality({f \in planned : f < index})
      /\ ~V2CannotRead
  BY <1>1, FilesCount DEF IInv, TypeOK, NothingAgainst, Progress, Enumerating, Deciding
<1>3. \/ rest = {} /\ Proceed("submit") /\ UNCHANGED <<index, footers>>
      \/ Raise("failed") /\ UNCHANGED <<index, footers>>
      \/ Raise("contradiction") /\ UNCHANGED <<index, footers>>
      \/ \E f \in planned : Fits(f)
  <2>1. CASE rest # {} /\ Min(rest) \in present /\ FooterFits(Min(rest))
             /\ index' = Min(rest) + 1 /\ footers' = footers + content[Min(rest)].rows
             /\ UNCHANGED <<step, decision>>
    <3>1. rest \in SUBSET DataFiles /\ rest # {}
      BY <1>2, <2>1
    <3> HIDE DEF rest
    <3>2. Min(rest) \in rest /\ \A f \in rest : Min(rest) <= f
      BY <3>1, FirstFile
    <3>3. Fits(Min(rest))
      BY <1>1, <2>1, <3>2 DEF Fits, rest, decision
    <3>4. QED
      BY <3>2, <3>3 DEF rest
  <2>2. QED
    BY <2>1 DEF Footer
<1>4. V2CannotRead' <=> V2CannotRead
  BY <1>1 DEF V2CannotRead
<1>5. CASE rest = {} /\ Proceed("submit") /\ UNCHANGED <<index, footers>>
  <2>1. step' = "submit" /\ UNCHANGED <<path, found, index, footers>>
    BY <1>5 DEF Proceed, decision
  <2>2. TypeOK'
    BY <1>1, <1>2, <2>1 DEF IInv, TypeOK, Rows
  <2>3. NothingAgainst' /\ NoneSkipped' /\ StableReadIsTheTable'
    BY <1>2, <2>1 DEF NothingAgainst, NoneSkipped, StableReadIsTheTable, Delivered
  <2>4. Progress'
    BY <1>1, <1>2, <1>4, <2>1 DEF Progress, Enumerating, Deciding
  <2>5. Undisturbed'
    <3>1. planned = {f \in planned : f < index}
      <4>1. \A f \in planned : f \in Nat
        BY <1>2, DataFilesNumbered
      <4>2. \A f \in planned : ~(f >= index)
        BY <1>5
      <4>3. \A f \in planned : f < index
        BY <1>2, <4>1, <4>2
      <4>4. QED
        BY <4>3
    <3>2. stable => Listed(Len(table.parts)) /\ Checked(planned)
      BY <1>1, <3>1 DEF IInv, Undisturbed
    <3>3. stable' => Listed(Len(table.parts))' /\ Checked(planned)'
      BY <1>1, <2>1, <3>2 DEF Listed, Checked
    <3>4. QED
      BY <2>1, <3>3 DEF Undisturbed
  <2>6. QED
    BY <2>2, <2>3, <2>4, <2>5 DEF IInv
<1>6. CASE \E f \in planned : Fits(f)
  <2>1. PICK f \in planned : Fits(f)
    BY <1>6
  <2> DEFINE before == {g \in planned : g < index}
             after == {g \in planned' : g < index'}
  <2>2. after = before \cup {f} /\ f \notin before /\ f \in DataFiles /\ f \in Nat \ {0}
    BY <2>1, NextFooter
  <2>3. before \in SUBSET DataFiles /\ after \in SUBSET planned
    BY <1>1, <1>2
  <2>4. content[f] \in Contents
    BY <2>2 DEF IInv, TypeOK
  <2>5. content[f].rows \in {0, 1} /\ content[f].schema = "same"
    BY <2>1, <2>4, ContentsKnown DEF Fits, FooterFits
  <2>6. index' = f + 1 /\ footers' = footers + content[f].rows /\ UNCHANGED <<step, path, found>>
    BY <2>1 DEF Fits
  <2>7. footers <= Cardinality(before) /\ footers \in Nat
    BY <1>2
  <2>8. stable => Listed(Len(table.parts)) /\ Checked(before)
    BY <1>1 DEF IInv, Undisturbed
  <2> HIDE DEF before, after
  <2>9. IsFiniteSet(before) /\ Cardinality(before) \in Nat
    BY <2>3, FilesCount
  <2>10. Cardinality(after) = Cardinality(before) + 1
    BY <2>2, <2>9, FS_AddElement
  <2>11. footers' <= Cardinality(after) /\ footers' \in Nat
    BY <2>5, <2>6, <2>7, <2>9, <2>10
  <2>12. Cardinality(after) <= Cardinality(planned) /\ Cardinality(planned) \in Nat
    BY <1>2, <2>3, FilesCount, FS_Subset
  <2>13. TypeOK'
    <3>1. footers' \in 0..Cardinality(planned') /\ index' \in Nat \ {0}
      BY <1>1, <2>2, <2>6, <2>9, <2>10, <2>11, <2>12
    <3>2. QED
      BY <1>1, <2>6, <3>1 DEF IInv, TypeOK, Rows
  <2>14. NothingAgainst' /\ NoneSkipped' /\ StableReadIsTheTable'
    BY <1>1, <1>2, <2>6 DEF NothingAgainst, NoneSkipped, StableReadIsTheTable, Delivered
  <2>15. Progress'
    BY <1>1, <1>2, <1>4, <2>6, <2>11 DEF Progress, Enumerating, Deciding, after
  <2>16. Undisturbed'
    <3> SUFFICES ASSUME stable'
                 PROVE  Listed(Len(table.parts))' /\ Checked({g \in planned : g < index})'
      BY <1>1, <2>6 DEF Undisturbed
    <3>1. Listed(Len(table.parts))'
      BY <1>1, <2>8 DEF Listed
    <3>2. \A g \in after : content[g].schema = "same"
      BY <1>1, <2>2, <2>5, <2>8 DEF Checked
    <3>3. footers' = 0 => footers = 0 /\ content[f].rows = 0
      BY <2>5, <2>6, <2>7
    <3>4. footers' = 0 => \A g \in after : content[g].rows = 0
      BY <1>1, <2>2, <2>8, <3>3 DEF Checked
    <3>5. QED
      BY <1>1, <3>1, <3>2, <3>4 DEF Checked, after
  <2>17. QED
    BY <2>13, <2>14, <2>15, <2>16 DEF IInv
<1>7. CASE (Raise("failed") \/ Raise("contradiction")) /\ UNCHANGED <<index, footers>>
  <2>1. Kept /\ UNCHANGED <<read, output>>
    BY <1>1, <1>7 DEF Kept
  <2>2. QED
    BY <1>7, <2>1, EndsStop
<1>8. QED
  BY <1>3, <1>5, <1>6, <1>7

\* What is delivered is the table, if all files that are planned are read, or are known to
\* be without rows.
LEMMA RowsAreTheTable ==
  ASSUME table \in Tables, planned \in SUBSET DataFiles, content \in [DataFiles -> Contents],
         Listed(Len(table.parts)), Checked(planned)
  PROVE  /\ (\A f \in planned : read[f] = "yes") =>
               RowsRead = UNION {RowsOf(table.parts[i]) : i \in DOMAIN table.parts}
         /\ footers = 0 => UNION {RowsOf(table.parts[i]) : i \in DOMAIN table.parts} = {}
         /\ \A row \in RowsRead : row.content.schema = "same"
<1> DEFINE Value(f) == IF table.keyed THEN Dirs[Files[f].dir].value ELSE None
           Row(f, value) == [file |-> f, content |-> content[f], value |-> value]
<1>1. DOMAIN table.parts = 1..Len(table.parts)
  BY PartsKnown
<1>2. \A i \in DOMAIN table.parts : \A f \in DataFiles :
         Files[f].dir = table.parts[i].dir => Value(f) = table.parts[i].value
  BY <1>1, PartsKnown DEF Listed
<1>3. \A f \in DataFiles :
         f \in planned <=> /\ f \in present
                           /\ \E i \in DOMAIN table.parts : Files[f].dir = table.parts[i].dir
  BY <1>1 DEF Listed
<1>4. \A row : row \in RowsRead <=>
         \E f \in planned : read[f] = "yes" /\ content[f].rows = 1 /\ row = Row(f, Value(f))
  BY DEF RowsRead
<1>5. \A row, i : row \in RowsOf(table.parts[i]) <=>
         \E f \in DataFiles \cap present :
            /\ Files[f].dir = table.parts[i].dir /\ content[f].rows = 1
            /\ row = Row(f, table.parts[i].value)
  BY DEF RowsOf
<1>6. ASSUME \A f \in planned : read[f] = "yes"
      PROVE  RowsRead = UNION {RowsOf(table.parts[i]) : i \in DOMAIN table.parts}
  <2>1. \A row \in RowsRead : \E i \in DOMAIN table.parts : row \in RowsOf(table.parts[i])
    <3> SUFFICES ASSUME NEW row \in RowsRead
                 PROVE  \E i \in DOMAIN table.parts : row \in RowsOf(table.parts[i])
      OBVIOUS
    <3>1. PICK f \in planned : content[f].rows = 1 /\ row = Row(f, Value(f))
      BY <1>4
    <3>2. PICK i \in DOMAIN table.parts : Files[f].dir = table.parts[i].dir
      BY <1>3
    <3>3. f \in DataFiles \cap present /\ Value(f) = table.parts[i].value
      BY <1>2, <1>3, <3>2
    <3>4. row = Row(f, table.parts[i].value)
      BY <3>1, <3>3
    <3> HIDE DEF Row
    <3>5. QED
      BY <1>5, <3>1, <3>2, <3>3, <3>4
  <2>2. \A i \in DOMAIN table.parts : \A row \in RowsOf(table.parts[i]) : row \in RowsRead
    <3> SUFFICES ASSUME NEW i \in DOMAIN table.parts, NEW row \in RowsOf(table.parts[i])
                 PROVE  row \in RowsRead
      OBVIOUS
    <3> HIDE DEF Row, Value
    <3>1. PICK f \in DataFiles \cap present : /\ Files[f].dir = table.parts[i].dir
                                              /\ content[f].rows = 1
                                              /\ row = Row(f, table.parts[i].value)
      BY <1>5
    <3>2. f \in planned /\ Value(f) = table.parts[i].value
      BY <1>2, <1>3, <3>1
    <3>3. row = Row(f, Value(f)) /\ read[f] = "yes"
      BY <1>6, <3>1, <3>2
    <3>4. QED
      BY <1>4, <3>1, <3>2, <3>3
  <2>3. QED
    BY <2>1, <2>2
<1>7. ASSUME footers = 0
      PROVE  \A i \in DOMAIN table.parts : RowsOf(table.parts[i]) = {}
  <2>1. \A f \in planned : content[f].rows = 0
    BY <1>7 DEF Checked
  <2>2. \A i \in DOMAIN table.parts, f \in DataFiles \cap present :
           Files[f].dir = table.parts[i].dir => content[f].rows # 1
    BY <1>3, <2>1
  <2>3. QED
    BY <1>5, <2>2
<1>8. \A row \in RowsRead : row.content.schema = "same"
  <2> SUFFICES ASSUME NEW row \in RowsRead PROVE row.content.schema = "same"
    OBVIOUS
  <2>1. PICK f \in planned : row = Row(f, Value(f))
    BY <1>4
  <2>2. row.content = content[f]
    BY <2>1
  <2>3. QED
    BY <2>2 DEF Checked
<1>9. QED
  BY <1>6, <1>7, <1>8

\* The submission to Ray.
LEMMA SubmitKeeps ==
  ASSUME IInv, Submit PROVE IInv'
<1>1. Kept /\ UNCHANGED <<read, output>> /\ step = "submit"
  BY DEF Submit, Kept, inputs, storage, plan, result
<1>2. /\ output = {} /\ planned = visible /\ path = "undecided"
      /\ \A f \in DataFiles : read[f] = "no"
      /\ table \in Tables /\ planned \in SUBSET DataFiles
      /\ content \in [DataFiles -> Contents]
  BY <1>1 DEF IInv, TypeOK, Progress, Deciding
<1>3. CASE Return("end") \/ Return("tasks")
  <2>1. /\ step' \in {"tasks", "end"} /\ path' = "native" /\ UNCHANGED found
        /\ step' = "end" => footers = 0
    BY <1>3, <1>1 DEF Return, Submit, NotApplicable, Raise
  <2>2. TypeOK'
    BY <1>1, <2>1 DEF IInv, TypeOK, Kept, Rows
  <2>3. NothingAgainst'
    BY <1>2, <2>1 DEF IInv, NothingAgainst
  <2>4. Progress'
    <3>1. V2CannotRead' <=> V2CannotRead
      BY <1>1 DEF V2CannotRead, Kept
    <3>2. QED
      BY <1>1, <1>2, <2>1, <3>1 DEF IInv, Progress, Kept, Enumerating, Deciding
  <2>5. NoneSkipped'
    <3>1. \A f \in planned : read[f] = "no"
      BY <1>2
    <3>2. QED
      BY <1>1, <2>1, <3>1 DEF NoneSkipped, Delivered, Kept
  <2>6. Undisturbed'
    <3> SUFFICES ASSUME stable, step' = "tasks"
                 PROVE  (Listed(Len(table.parts)) /\ Checked(planned) /\ output = RowsRead)'
      BY <1>1, <2>1 DEF Undisturbed, Kept
    <3>1. Listed(Len(table.parts)) /\ Checked(planned)
      BY <1>1 DEF IInv, Undisturbed
    <3>2. Listed(Len(table.parts))' /\ Checked(planned)'
      BY <1>1, <3>1 DEF Listed, Checked, Kept
    <3>3. \A f \in planned' : read'[f] # "yes"
      BY <1>1, <1>2 DEF Kept
    <3>4. RowsRead' = {}
      BY <3>3 DEF RowsRead
    <3>5. QED
      BY <1>1, <1>2, <3>2, <3>4
  <2>7. StableReadIsTheTable'
    <3> SUFFICES ASSUME stable, step' = "end"
                 PROVE  UNION {RowsOf(table.parts[i]) : i \in DOMAIN table.parts} = {}
      BY <1>1, <1>2 DEF StableReadIsTheTable, Delivered, RowsOf, Kept
    <3>1. Listed(Len(table.parts)) /\ Checked(planned)
      BY <1>1 DEF IInv, Undisturbed
    <3>2. QED
      BY <1>2, <2>1, <3>1, RowsAreTheTable
  <2>8. QED
    BY <2>2, <2>3, <2>4, <2>5, <2>6, <2>7 DEF IInv
<1>4. QED
  BY <1>1, <1>3, EndsStop DEF Submit

\* A task with a planned file: its rows are delivered, or the read breaks; no file is
\* filtered or left out.
LEMMA ReadFileDoes ==
  ASSUME IInv, NEW f \in DataFiles, ReadFile(f)
  PROVE  /\ step = "tasks" /\ f \in planned /\ read[f] = "no" /\ Kept
         /\ \/ Break /\ UNCHANGED <<read, output>>
            \/ /\ read' = [read EXCEPT ![f] = "yes"]
               /\ output' = output \cup
                     {[file |-> f, content |-> content[f],
                       value |-> IF table.keyed THEN Dirs[Files[f].dir].value ELSE None]
                      : n \in 1..content[f].rows}
               /\ UNCHANGED <<step, path, found>>
<1>1. step = "tasks" /\ f \in planned /\ read[f] = "no" /\ Kept
  BY DEF ReadFile, Kept, inputs, storage, plan
<1>2. ~Filtered(f)
  BY <1>1 DEF IInv, Progress, V2CannotRead, Filtered
<1>3. ~ParquetOptions.ignoreMissing
  BY DEF ParquetOptions
<1>4. ParquetOptions.scheme = "keys" <=> table.keyed
  BY DEF ParquetOptions
<1>5. QED
  BY <1>1, <1>2, <1>3, <1>4 DEF ReadFile, decision, result

\* The rows of one more file.
LEMMA OneMoreRead ==
  ASSUME IInv, NEW f \in DataFiles, f \in planned, UNCHANGED <<table, planned, content>>,
         read' = [read EXCEPT ![f] = "yes"], output = RowsRead,
         output' = output \cup
                     {[file |-> f, content |-> content[f],
                       value |-> IF table.keyed THEN Dirs[Files[f].dir].value ELSE None]
                      : n \in 1..content[f].rows},
         read[f] = "no"
  PROVE  output' = RowsRead'
<1> DEFINE Row(g) == [file |-> g, content |-> content[g],
                      value |-> IF table.keyed THEN Dirs[Files[g].dir].value ELSE None]
<1>1. content[f].rows \in {0, 1}
  BY ContentsKnown DEF IInv, TypeOK
<1>2. {Row(f) : n \in 1..content[f].rows} = IF content[f].rows = 1 THEN {Row(f)} ELSE {}
  <2>1. CASE content[f].rows = 1
    <3>1. 1 \in 1..1
      OBVIOUS
    <3>2. QED
      BY <2>1, <3>1
  <2>2. CASE content[f].rows = 0
    <3>1. 1..0 = {}
      OBVIOUS
    <3>2. QED
      BY <2>2, <3>1
  <2>3. QED
    BY <1>1, <2>1, <2>2
<1>3. \A g \in planned : g \in DataFiles /\ read'[g] = IF g = f THEN "yes" ELSE read[g]
  BY DEF IInv, TypeOK
<1>4. RowsRead = {Row(g) : g \in {h \in planned : read[h] = "yes" /\ content[h].rows = 1}}
  BY DEF RowsRead
<1>5. RowsRead' = {Row(g) : g \in {h \in planned : read'[h] = "yes" /\ content[h].rows = 1}}
  BY DEF RowsRead
<1> DEFINE old == {h \in planned : read[h] = "yes" /\ content[h].rows = 1}
           new == {h \in planned : read'[h] = "yes" /\ content[h].rows = 1}
<1>6. new = old \cup IF content[f].rows = 1 THEN {f} ELSE {}
  BY <1>3
<1> HIDE DEF old, new
<1>7. {Row(g) : g \in new} =
         {Row(g) : g \in old} \cup IF content[f].rows = 1 THEN {Row(f)} ELSE {}
  BY <1>6
<1>8. QED
  BY <1>2, <1>4, <1>5, <1>7 DEF old, new

\* A file is read.
LEMMA ReadFileKeeps ==
  ASSUME IInv, NEW f \in DataFiles, ReadFile(f) PROVE IInv'
<1>1. /\ step = "tasks" /\ f \in planned /\ read[f] = "no" /\ Kept
      /\ \/ Break /\ UNCHANGED <<read, output>>
         \/ /\ read' = [read EXCEPT ![f] = "yes"]
            /\ output' = output \cup
                  {[file |-> f, content |-> content[f],
                    value |-> IF table.keyed THEN Dirs[Files[f].dir].value ELSE None]
                   : n \in 1..content[f].rows}
            /\ UNCHANGED <<step, path, found>>
  BY ReadFileDoes
<1>2. CASE /\ read' = [read EXCEPT ![f] = "yes"]
           /\ output' = output \cup
                 {[file |-> f, content |-> content[f],
                   value |-> IF table.keyed THEN Dirs[Files[f].dir].value ELSE None]
                  : n \in 1..content[f].rows}
           /\ UNCHANGED <<step, path, found>>
  <2>1. output' \subseteq Rows'
    <3>1. output \subseteq Rows /\ content[f] \in Contents
      BY DEF IInv, TypeOK
    <3>2. Files[f].dir \in DOMAIN Dirs
      BY DataFilesNumbered
    <3> DEFINE value == IF table.keyed THEN Dirs[Files[f].dir].value ELSE None
    <3>3. value \in {Dirs[d].value : d \in DOMAIN Dirs} \cup {None}
      BY <3>2
    <3> HIDE DEF value
    <3>4. [file |-> f, content |-> content[f], value |-> value] \in Rows
      BY <3>1, <3>3 DEF Rows
    <3>5. QED
      BY <1>2, <3>1, <3>4 DEF value, Rows
  <2>2. /\ read \in [DataFiles -> {"no", "yes", "filtered", "ignored"}]
        /\ planned \in SUBSET DataFiles
    BY DEF IInv, TypeOK
  <2>3. read' \in [DataFiles -> {"no", "yes", "filtered", "ignored"}]
    BY <1>2, <2>2
  <2>4. TypeOK'
    BY <1>1, <1>2, <2>1, <2>3 DEF IInv, TypeOK, Kept
  <2>5. NothingAgainst' /\ StableReadIsTheTable'
    BY <1>1, <1>2 DEF IInv, NothingAgainst, StableReadIsTheTable, Delivered
  <2>6. Progress'
    <3>1. V2CannotRead' <=> V2CannotRead
      BY <1>1 DEF V2CannotRead, Kept
    <3>2. QED
      BY <1>1, <1>2, <3>1 DEF IInv, Progress, Kept, Enumerating, Deciding
  <2>7. NoneSkipped'
    <3>1. \A g \in planned : read[g] \in {"no", "yes"}
      BY <1>1 DEF IInv, NoneSkipped
    <3>2. \A g \in planned' : read'[g] \in {"no", "yes"}
      BY <1>1, <1>2, <2>2, <3>1 DEF Kept
    <3>3. QED
      BY <1>1, <1>2, <3>2 DEF NoneSkipped, Delivered
  <2>8. Undisturbed'
    <3> SUFFICES ASSUME stable
                 PROVE  (Listed(Len(table.parts)) /\ Checked(planned) /\ output = RowsRead)'
      BY <1>1, <1>2 DEF Undisturbed, Kept
    <3>1. Listed(Len(table.parts)) /\ Checked(planned) /\ output = RowsRead
      BY <1>1 DEF IInv, Undisturbed
    <3>2. Listed(Len(table.parts))' /\ Checked(planned)'
      BY <1>1, <3>1 DEF Listed, Checked, Kept
    <3>3. output' = RowsRead'
      BY <1>1, <1>2, <3>1, OneMoreRead DEF Kept
    <3>4. QED
      BY <3>2, <3>3
  <2>9. QED
    BY <2>4, <2>5, <2>6, <2>7, <2>8 DEF IInv
<1>3. QED
  BY <1>1, <1>2, EndsStop

\* All files are read.
LEMMA CompleteKeeps ==
  ASSUME IInv, Complete PROVE IInv'
<1>1. /\ Kept /\ UNCHANGED <<read, output, path, found>> /\ step = "tasks" /\ step' = "end"
      /\ \A f \in planned : read[f] # "no"
  BY DEF Complete, Kept, inputs, storage, plan, result, decision
<1>2. path = "native" /\ \A f \in planned : read[f] = "yes"
  BY <1>1 DEF IInv, NothingAgainst, NoneSkipped
<1>3. TypeOK'
  BY <1>1, <1>2 DEF IInv, TypeOK, Kept, Rows
<1>4. NothingAgainst'
  BY <1>1 DEF IInv, NothingAgainst
<1>5. Progress'
  BY <1>1 DEF IInv, Progress, Kept, Enumerating, Deciding
<1>6. NoneSkipped'
  BY <1>1, <1>2 DEF NoneSkipped, Kept
<1>7. Undisturbed'
  BY <1>1 DEF Undisturbed
<1>8. StableReadIsTheTable'
  <2> SUFFICES ASSUME stable
               PROVE  /\ \A row \in output : row.content.schema = "same"
                      /\ output = UNION {RowsOf(table.parts[i]) : i \in DOMAIN table.parts}
    BY <1>1 DEF StableReadIsTheTable, RowsOf, Kept
  <2>1. Listed(Len(table.parts)) /\ Checked(planned) /\ output = RowsRead
    BY <1>1 DEF IInv, Undisturbed
  <2>2. table \in Tables /\ planned \in SUBSET DataFiles /\ content \in [DataFiles -> Contents]
    BY DEF IInv, TypeOK
  <2>3. QED
    BY <1>2, <2>1, <2>2, RowsAreTheTable
<1>9. QED
  BY <1>3, <1>4, <1>5, <1>6, <1>7, <1>8 DEF IInv

\* Whatever others do to storage, nothing of it is promised any longer.
LEMMA ChangeKeeps ==
  ASSUME IInv, Change, present' \subseteq DOMAIN Files, content' \in [DataFiles -> Contents]
  PROVE  IInv'
<1>1. /\ step \notin {"route", "discover", "root", "end"} /\ stable' = FALSE
      /\ changes' = changes + 1 /\ changes < MaxChanges
      /\ UNCHANGED <<table, reader, step, index, planned, visible, footers, read, output, path,
                     found>>
  BY DEF Change, inputs, plan, result, decision
<1>2. changes' \in 0..MaxChanges
  <2>1. MaxChanges \in Nat /\ changes \in 0..MaxChanges
    BY NativeReadAssumption DEF IInv, TypeOK
  <2>2. QED
    BY <1>1, <2>1
<1>3. TypeOK'
  BY <1>1, <1>2 DEF IInv, TypeOK, Rows
<1>4. NothingAgainst' /\ NoneSkipped'
  BY <1>1 DEF IInv, NothingAgainst, NoneSkipped, Delivered
<1>5. Progress'
  <2>1. V2CannotRead' <=> V2CannotRead
    BY <1>1 DEF V2CannotRead
  <2>2. QED
    BY <1>1, <2>1 DEF IInv, Progress, Enumerating, Deciding
<1>6. Undisturbed' /\ StableReadIsTheTable'
  BY <1>1 DEF Undisturbed, StableReadIsTheTable
<1>7. QED
  BY <1>3, <1>4, <1>5, <1>6 DEF IInv

\* An entry is published, replaced or deleted.
LEMMA StorageKeeps ==
  ASSUME IInv,
         \/ \E f \in DOMAIN Files : Publish(f) \/ Delete(f)
         \/ \E f \in DataFiles, c \in Contents : Replace(f, c)
  PROVE  IInv'
<1>1. present \subseteq DOMAIN Files /\ content \in [DataFiles -> Contents]
  BY DEF IInv, TypeOK
<1>2. ASSUME NEW f \in DOMAIN Files, Publish(f) \/ Delete(f) PROVE IInv'
  BY <1>1, <1>2, ChangeKeeps DEF Publish, Delete
<1>3. ASSUME NEW f \in DataFiles, NEW c \in Contents, Replace(f, c) PROVE IInv'
  BY <1>1, <1>3, ChangeKeeps DEF Replace
<1>4. QED
  BY <1>2, <1>3

\* A step that changes nothing.
LEMMA StutterKeeps ==
  ASSUME IInv, UNCHANGED vars PROVE IInv'
<1>1. Kept /\ UNCHANGED <<read, output, step, path, found>>
  BY DEF vars, Kept
<1>2. TypeOK'
  BY <1>1 DEF IInv, TypeOK, Rows, Kept
<1>3. NothingAgainst' /\ NoneSkipped'
  BY <1>1 DEF IInv, NothingAgainst, NoneSkipped, Delivered, Kept
<1>4. Progress'
  <2>1. V2CannotRead' <=> V2CannotRead
    BY <1>1 DEF V2CannotRead, Kept
  <2>2. QED
    BY <1>1, <2>1 DEF IInv, Progress, Kept, Enumerating, Deciding
<1>5. Undisturbed'
  <2>1. /\ \A n : Listed(n)' <=> Listed(n)
        /\ \A s : Checked(s)' <=> Checked(s)
        /\ RowsRead' = RowsRead
    BY <1>1 DEF Listed, Checked, RowsRead, Kept
  <2>2. QED
    BY <1>1, <2>1 DEF IInv, Undisturbed, Kept
<1>6. StableReadIsTheTable'
  BY <1>1 DEF IInv, StableReadIsTheTable, Delivered, RowsOf, Kept
<1>7. QED
  BY <1>2, <1>3, <1>4, <1>5, <1>6 DEF IInv

\* Every step keeps the invariant.
LEMMA NextIInv == IInv /\ [Next]_vars => IInv'
<1> SUFFICES ASSUME IInv, [Next]_vars PROVE IInv'
  OBVIOUS
<1>1. CASE Driver
  BY <1>1, OpeningKeeps, PlanPartitionKeeps, ChooseReaderKeeps, FooterKeeps, SubmitKeeps
  DEF Driver
<1>2. CASE Tasks
  BY <1>2, ReadFileKeeps, CompleteKeeps DEF Tasks
<1>3. CASE ReadFails
  BY <1>3, EndsStop DEF ReadFails, Kept, inputs, storage, plan, result
<1>4. QED
  BY <1>1, <1>2, <1>3, StorageKeeps, StutterKeeps DEF Next, Ended

\* IInv holds in every reachable state.
THEOREM NativeReadInvariant == SafeSpec => []IInv
  BY InitIInv, NextIInv, PTL DEF SafeSpec

-----------------------------------------------------------------------------
(* What follows.                                                           *)

\* A native read that ends normally while the files stayed as they were since the
\* enumeration began delivered every row of every visible file of every registered
\* partition, with the registered values and from files of exactly the table's schema.
THEOREM StableReadIsTheTableSafe == SafeSpec => []StableReadIsTheTable
  BY NativeReadInvariant, PTL DEF IInv

\* Whatever others do to storage, no file that was listed is left out without an error.
THEOREM NothingListedIsOmittedSafe == SafeSpec => []NothingListedIsOmitted
<1>1. IInv => NothingListedIsOmitted
  BY DEF IInv, Progress, NoneSkipped, NothingListedIsOmitted
<1>2. QED
  BY <1>1, NativeReadInvariant, PTL

\* read_doris implements SourceSelection, fairness aside: a known limitation leads to
\* Doris, anything worse to an error, and a native read that breaks is never replayed
\* through Doris.
THEOREM ImplementsSelectionSafely == SafeSpec => Selection!SafeSpec
<1>1. Init => Selection!Init
  BY DEF Init, Selection!Init
<1>2. IInv /\ [Next]_vars => [Selection!Next]_(Selection!vars)
  <2> SUFFICES ASSUME IInv, [Next]_vars PROVE [Selection!Next]_(Selection!vars)
    OBVIOUS
  <2>1. CASE UNCHANGED <<path, found>>
    BY <2>1 DEF Selection!vars
  <2>2. CASE Break /\ step = "tasks"
    <3>1. path = "native"
      BY <2>2 DEF IInv, NothingAgainst
    <3>2. QED
      BY <2>2, <3>1 DEF Break, Selection!Next, Selection!Break
  <2>3. CASE /\ path = "undecided"
             /\ \/ NotApplicable
                \/ \E finding \in {"contradiction", "denied", "failed"} : Raise(finding)
                \/ path' = "native" /\ UNCHANGED found
    <3>1. found = {}
      BY <2>3 DEF IInv, NothingAgainst
    <3>2. /\ path' \in {"native", "doris", "error"}
          /\ found' \in SUBSET Selection!Findings
          /\ Selection!Justified(path', found')
      BY <2>3, <3>1 DEF NotApplicable, Raise, Selection!Findings, Selection!Justified
    <3>3. QED
      BY <2>3, <3>1, <3>2 DEF Selection!Next, Selection!Decide
  <2>4. CASE Driver
    <3>1. path = "undecided"
      BY <2>4 DEF IInv, TypeOK, Driver, Route, Discover, PlanRoot, PlanPartition, ChooseReader,
                  Footer, Submit
    <3>2. CASE Route \/ Discover \/ PlanRoot
      BY <2>1, <2>3, <3>1, <3>2 DEF Route, Discover, PlanRoot, Proceed, decision
    <3>3. CASE PlanPartition
      BY <2>1, <2>3, <3>1, <3>3, PlanDoes DEF Lists
    <3>4. CASE ChooseReader \/ Footer \/ Submit
      BY <2>1, <2>3, <3>1, <3>4 DEF ChooseReader, Footer, Submit, Proceed, Return, decision
    <3>5. QED
      BY <2>4, <3>2, <3>3, <3>4 DEF Driver
  <2>5. CASE Tasks \/ ReadFails
    BY <2>1, <2>2, <2>5, ReadFileDoes DEF Tasks, Complete, ReadFails, decision
  <2>6. CASE \/ \E f \in DOMAIN Files : Publish(f) \/ Delete(f)
             \/ \E f \in DataFiles, c \in Contents : Replace(f, c)
    BY <2>1, <2>6 DEF Publish, Delete, Replace, Change, decision
  <2>7. QED
    BY <2>1, <2>4, <2>5, <2>6 DEF Next, Ended, vars
<1>3. QED
  BY <1>1, <1>2, NativeReadInvariant, PTL DEF SafeSpec, Selection!SafeSpec
=============================================================================
