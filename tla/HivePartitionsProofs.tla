------------------------ MODULE HivePartitionsProofs ------------------------
(***************************************************************************)
(* Proofs for HivePartitions: any partitions and values, any limits, and   *)
(* any changes of the table while it is planned.                           *)
(***************************************************************************)
EXTENDS HivePartitions, FiniteSetTheorems, TLAPS

Reading == step \in {"descriptors", "compare"}

\* Nothing is kept before the listing.
EmptyBefore == step = "names" => names = <<>> /\ result = <<>> /\ offset = 0

\* The listing is what was registered, each name once, and within the limit.
ListingIsListed ==
    Reading => /\ IsInjective(names) /\ Range(names) = listed
               /\ Len(names) <= MaxPartitions

\* Partitions of the names of a listing behind one position up to another, each once.
PartitionsOf(read, listing, from, to) ==
    /\ Len(read) = to - from
    /\ \A i, j \in DOMAIN read : read[i].name = read[j].name => i = j
    /\ \A i \in DOMAIN read : \E k \in (from + 1)..to : read[i].name = listing[k]
    /\ \A k \in (from + 1)..to : \E i \in DOMAIN read : read[i].name = listing[k]

\* The partitions read are those of the names before offset.
ReadToOffset ==
    Reading => /\ PartitionsOf(result, names, 0, offset)
               /\ step = "compare" => offset = Len(names)

\* Descriptors are those the registration had at some time.
VersionsAreCurrent ==
    /\ \A i \in DOMAIN result : <<result[i].name, result[i].version>> \in current
    /\ Reading => \A n \in Registered : <<n, hms[n]>> \in current

\* Without a change the listing is still what is registered.
UndisturbedListing == Reading /\ ~upset => Registered = listed

IInv ==
    /\ TypeOK /\ EmptyBefore /\ ListingIsListed /\ ReadToOffset
    /\ VersionsAreCurrent /\ UndisturbedListing
    /\ ResultIsTheListing /\ ScopeIsDoris /\ NoFalseAlarm

-----------------------------------------------------------------------------
(* Sequences that list a set, and the bags of the comparison.              *)

\* How often every value occurs among the partitions of a set.
CountsOf(set) ==
    [v \in {ValueOf[n] : n \in set} |-> Cardinality({n \in set : ValueOf[n] = v})]

Count(set, v) == Cardinality({n \in set : ValueOf[n] = v})

\* Subsets of the names are finite.
LEMMA FiniteNames ==
    ASSUME NEW set \in SUBSET Names
    PROVE  IsFiniteSet(set) /\ Cardinality(set) \in Nat
  <1>1. IsFiniteSet(set)
    BY FS_Subset, HivePartitionsAssumption
  <1> QED
    BY <1>1, FS_CardinalityType

\* As many different names as a set has are all of it (pigeonhole); a sequence that
\* has them all, each once, is as long as the set is large.
LEMMA ListsAll ==
    ASSUME NEW set \in SUBSET Names, NEW k \in Nat, NEW f \in [1..k -> set], IsInjective(f)
    PROVE  /\ k <= Cardinality(set)
           /\ k = Cardinality(set) <=> Range(f) = set
  <1>1. f \in Injection(1..k, set)
    BY DEF Injection
  <1>2. IsFiniteSet(1..k) /\ Cardinality(1..k) = k
    BY FS_Interval
  <1>3. /\ Cardinality(1..k) <= Cardinality(set)
        /\ Cardinality(1..k) = Cardinality(set) <=> f \in Surjection(1..k, set)
    BY <1>1, FS_Injection, FiniteNames
  <1>4. f \in Surjection(1..k, set) <=> Range(f) = set
    BY DEF Surjection, Range
  <1> QED
    BY <1>2, <1>3, <1>4

\* The bag of the values of a listed set counts its values, in whatever order it
\* is listed.
LEMMA BagOfValues ==
    ASSUME NEW set \in SUBSET Names, NEW k \in Nat, NEW f \in [1..k -> set],
           IsInjective(f), Range(f) = set
    PROVE  ToBag([i \in DOMAIN f |-> ValueOf[f[i]]]) = CountsOf(set)
  <1> DEFINE g == [i \in DOMAIN f |-> ValueOf[f[i]]]
             at(v) == {i \in DOMAIN g : g[i] = v}
             with(v) == {n \in set : ValueOf[n] = v}
  <1>1. DOMAIN f = 1..k /\ DOMAIN g = 1..k
    OBVIOUS
  <1>2. Range(g) = {ValueOf[n] : n \in set}
    BY DEF Range
  <1>3. ASSUME NEW v PROVE Cardinality(at(v)) = Cardinality(with(v))
    <2> DEFINE h == [i \in at(v) |-> f[i]]
    <2>1. h \in [at(v) -> with(v)]
      BY <1>1
    <2>2. h \in Injection(at(v), with(v))
      BY <2>1 DEF Injection, IsInjective
    <2>3. ASSUME NEW n \in with(v) PROVE \E i \in at(v) : h[i] = n
      <3>1. PICK i \in 1..k : f[i] = n
        BY <1>1 DEF Range
      <3> QED
        BY <1>1, <3>1
    <2>4. h \in Surjection(at(v), with(v))
      BY <2>1, <2>3 DEF Surjection
    <2>5. ExistsBijection(at(v), with(v))
      BY <2>2, <2>4 DEF ExistsBijection, Bijection
    <2>6. IsFiniteSet(at(v))
      <3>1. IsFiniteSet(1..k) /\ at(v) \subseteq 1..k
        BY <1>1, FS_Interval
      <3> QED
        BY <3>1, FS_Subset
    <2> QED
      BY <2>5, <2>6, FS_Bijection
  <1>4. ToBag(g) = [v \in Range(g) |-> Cardinality(at(v))]
    BY DEF ToBag
  <1>5. CountsOf(set) = [v \in Range(g) |-> Cardinality(with(v))]
    BY <1>2 DEF CountsOf
  <1> HIDE DEF at, with, g
  <1>6. [v \in Range(g) |-> Cardinality(at(v))] = [v \in Range(g) |-> Cardinality(with(v))]
    BY <1>3
  <1> QED
    BY <1>4, <1>5, <1>6 DEF g

\* The bag of a listed set of names has each of them once.
LEMMA BagOfNames ==
    ASSUME NEW set \in SUBSET Names, NEW k \in Nat, NEW f \in [1..k -> set],
           IsInjective(f), Range(f) = set
    PROVE  ToBag(f) = SetToBag(set)
  <1>1. ASSUME NEW n \in set PROVE Cardinality({i \in DOMAIN f : f[i] = n}) = 1
    <2>1. PICK i \in DOMAIN f : f[i] = n
      BY DEF Range
    <2>2. {j \in DOMAIN f : f[j] = n} = {i}
      BY <2>1 DEF IsInjective
    <2> QED
      BY <2>2, FS_Singleton
  <1> QED
    BY <1>1 DEF ToBag, SetToBag

\* SetToSeq lists a set.
LEMMA SetToSeqLists ==
    ASSUME NEW set \in SUBSET Names
    PROVE  /\ SetToSeq(set) \in [1..Cardinality(set) -> set]
           /\ IsInjective(SetToSeq(set))
           /\ Range(SetToSeq(set)) = set
  <1>1. Cardinality(set) \in Nat /\ ExistsBijection(1..Cardinality(set), set)
    BY FiniteNames, FS_CardinalityType
  <1>2. \E f \in [1..Cardinality(set) -> set] : IsInjective(f)
    BY <1>1 DEF ExistsBijection, Bijection, Injection
  <1>3. SetToSeq(set) \in [1..Cardinality(set) -> set] /\ IsInjective(SetToSeq(set))
    BY <1>2 DEF SetToSeq
  <1> QED
    BY <1>1, <1>3, ListsAll

\* Equal counts are what the comparison of values means: every value is as often
\* among the partitions of both sets.
LEMMA EqualCounts ==
    ASSUME NEW S \in SUBSET Names, NEW T \in SUBSET Names, CountsOf(S) = CountsOf(T),
           NEW v
    PROVE  Count(S, v) = Count(T, v)
  <1>1. {ValueOf[n] : n \in S} = {ValueOf[n] : n \in T}
    BY DEF CountsOf
  <1>2. CASE v \in {ValueOf[n] : n \in S}
    BY <1>1, <1>2 DEF CountsOf, Count
  <1>3. CASE v \notin {ValueOf[n] : n \in S}
    <2>1. {n \in S : ValueOf[n] = v} = {} /\ {n \in T : ValueOf[n] = v} = {}
      BY <1>1, <1>3
    <2> QED
      BY <2>1 DEF Count
  <1> QED
    BY <1>2, <1>3

\* What the comparison compares, for partitions of a set of names, each once.
LEMMA AgreeMeans ==
    ASSUME NEW rows \in SUBSET Names, NEW set \in SUBSET Names,
           NEW partitions \in Seq([name : Names, version : 1..MaxVersions]),
           \A i, j \in DOMAIN partitions : partitions[i].name = partitions[j].name => i = j,
           {partitions[i].name : i \in DOMAIN partitions} = set
    PROVE  Agree(rows, partitions) <=>
               IF source = "values" THEN CountsOf(rows) = CountsOf(set)
               ELSE SetToBag(rows) = SetToBag(set)
  <1> DEFINE declared == [i \in DOMAIN partitions |-> partitions[i].name]
             all == SetToSeq(rows)
  <1>1. declared \in [1..Len(partitions) -> set] /\ Len(partitions) \in Nat
    OBVIOUS
  <1>2. IsInjective(declared) /\ Range(declared) = set
    BY DEF IsInjective, Range
  <1>3. ToBag([i \in DOMAIN declared |-> ValueOf[declared[i]]]) = CountsOf(set)
    <2> HIDE DEF declared
    <2> QED
      BY <1>1, <1>2, BagOfValues
  <1>4. ToBag(declared) = SetToBag(set)
    <2> HIDE DEF declared
    <2> QED
      BY <1>1, <1>2, BagOfNames
  <1>5. ToBag([i \in DOMAIN all |-> ValueOf[all[i]]]) = CountsOf(rows)
    <2>1. /\ all \in [1..Cardinality(rows) -> rows]
          /\ IsInjective(all) /\ Range(all) = rows /\ Cardinality(rows) \in Nat
      BY SetToSeqLists, FiniteNames
    <2> HIDE DEF all
    <2> QED
      BY <2>1, BagOfValues
  <1> QED
    BY <1>3, <1>4, <1>5 DEF Agree

\* Doris reports partitions it knows of.
LEMMA ReportsAreKnown ==
    ASSUME TypeOK, NEW rows \in Reports
    PROVE  rows \in SUBSET Names
  BY DEF Reports, TypeOK

-----------------------------------------------------------------------------
(* The steps.                                                              *)

LEMMA InitIInv == Init => IInv
  <1> SUFFICES ASSUME Init PROVE IInv
    OBVIOUS
  <1>1. TypeOK
    <2>1. hms \in [Names -> 0..MaxVersions]
      BY HivePartitionsAssumption DEF Init
    <2>2. MaxPartitions + 1 \in Nat
      BY HivePartitionsAssumption
    <2>3. names = <<>> /\ names \in Seq(Names) /\ Len(names) = 0
      BY DEF Init
    <2>4. result \in Seq([name : Names, version : 1..MaxVersions])
      BY DEF Init
    <2>5. 0 \in 0..MaxChanges
      BY HivePartitionsAssumption
    <2>6. Len(names) <= MaxPartitions + 1 /\ offset \in 0..Len(names)
      BY <2>2, <2>3 DEF Init
    <2>7. changes \in 0..MaxChanges /\ doris \subseteq Names
      BY <2>5 DEF Init
    <2>8. current = {} /\ listed = {} /\ reported = {} /\ upset = FALSE
      BY DEF Init
    <2>9. /\ step = "names" /\ outcome = "none" /\ source \in {"values", "names"}
      BY DEF Init
    <2> QED
      BY <2>1, <2>3, <2>4, <2>6, <2>7, <2>8, <2>9 DEF TypeOK
  <1> QED
    BY <1>1 DEF Init, IInv, EmptyBefore, ListingIsListed, ReadToOffset, VersionsAreCurrent,
       UndisturbedListing, Reading, ResultIsTheListing, ScopeIsDoris, NoFalseAlarm

\* Ends other than a plan keep the invariant, if an error has its cause and too many
\* partitions are told only of a listing that has too many.
LEMMA EndKeeps ==
    ASSUME IInv, TypeOK', step' = "end", outcome' \in {"doris", "error"},
           result' = result, \A i \in DOMAIN result : current \subseteq current',
           outcome' = "error" => upset',
           outcome' = "doris" => Cardinality(listed') > MaxPartitions
    PROVE  IInv'
  BY DEF IInv, EmptyBefore, ListingIsListed, ReadToOffset, VersionsAreCurrent,
     UndisturbedListing, Reading, ResultIsTheListing, ScopeIsDoris, NoFalseAlarm

\* The listing: all that is registered, or one name too many.
LEMMA ListNamesIInv == IInv /\ ListNames => IInv'
  <1> SUFFICES ASSUME IInv, ListNames PROVE IInv'
    OBVIOUS
  <1> DEFINE all == Cardinality(Registered)
             size == IF all < AskedFor THEN all ELSE AskedFor
  <1>1. TypeOK /\ EmptyBefore /\ step = "names" /\ outcome = "none"
    BY DEF IInv, ListNames, TypeOK
  <1>2. Registered \in SUBSET Names /\ all \in Nat /\ MaxPartitions \in Nat \ {0}
    BY FiniteNames, HivePartitionsAssumption DEF Registered
  <1>3. AskedFor = MaxPartitions + 1 /\ size \in Nat /\ size <= AskedFor /\ size <= all
    BY <1>2 DEF AskedFor
  <1>4. names' \in [1..size -> Registered] /\ IsInjective(names')
    BY DEF ListNames, Listings
  <1> HIDE DEF size
  <1>5. names' \in Seq(Names) /\ Len(names') = size /\ DOMAIN names' = 1..size
    BY <1>2, <1>3, <1>4
  <1>6. /\ listed' = Registered /\ current' = {<<n, hms[n]>> : n \in Registered}
        /\ UNCHANGED <<hms, doris, changes, offset, result, source, reported, upset>>
        /\ result = <<>> /\ offset = 0
    BY <1>1 DEF ListNames, env, EmptyBefore
  <1>7. current' \subseteq Names \X (1..MaxVersions)
    BY <1>1, <1>6, HivePartitionsAssumption DEF Registered, TypeOK
  <1>8. CASE size > MaxPartitions
    <2>1. step' = "end" /\ outcome' = "doris"
      BY <1>5, <1>8 DEF ListNames, End
    <2>2. all > MaxPartitions
      BY <1>2, <1>3, <1>8
    <2>3. TypeOK'
      BY <1>1, <1>2, <1>3, <1>5, <1>6, <1>7, <2>1 DEF TypeOK
    <2> QED
      BY <1>6, <2>1, <2>2, <2>3, EndKeeps
  <1>9. CASE ~(size > MaxPartitions)
    <2>1. size = all
      BY <1>2, <1>3, <1>9 DEF size
    <2>2. /\ outcome' = outcome
          /\ step' = IF names' = <<>> THEN "compare" ELSE "descriptors"
      BY <1>5, <1>9 DEF ListNames
    <2>3. TypeOK'
      BY <1>1, <1>2, <1>3, <1>5, <1>6, <1>7, <2>2 DEF TypeOK
    <2>4. Range(names') = Registered
      BY <1>2, <1>3, <1>4, <2>1, ListsAll
    <2>5. EmptyBefore'
      BY <2>2 DEF EmptyBefore
    <2>6. ListingIsListed'
      BY <1>2, <1>3, <1>4, <1>5, <1>6, <1>9, <2>4 DEF ListingIsListed
    <2>7. ReadToOffset'
      <3>1. result' = <<>> /\ offset' = 0 /\ (step' = "compare" => Len(names') = 0)
        BY <1>5, <1>6, <2>2
      <3>2. PartitionsOf(result', names', 0, offset')
        BY <3>1 DEF PartitionsOf
      <3> QED
        BY <3>1, <3>2 DEF ReadToOffset
    <2>8. VersionsAreCurrent'
      BY <1>6 DEF VersionsAreCurrent, Registered
    <2>9. UndisturbedListing'
      BY <1>6 DEF UndisturbedListing, Registered
    <2> QED
      BY <1>1, <2>2, <2>3, <2>5, <2>6, <2>7, <2>8, <2>9
      DEF IInv, ResultIsTheListing, ScopeIsDoris, NoFalseAlarm
  <1> QED
    BY <1>8, <1>9

\* A batch is the names from offset on, and there is one before the end.
LEMMA BatchNames ==
    ASSUME TypeOK, step = "descriptors"
    PROVE  /\ BatchEnd \in offset..Len(names)
           /\ Batch \in Seq(Names) /\ Len(Batch) = BatchEnd - offset
           /\ \A i \in 1..(BatchEnd - offset) : Batch[i] = names[offset + i]
  <1>1. offset \in Nat /\ Len(names) \in Nat /\ offset <= Len(names) /\ names \in Seq(Names)
    BY DEF TypeOK
  <1>2. BatchEnd \in offset..Len(names)
    BY <1>1, HivePartitionsAssumption DEF BatchEnd
  <1> QED
    BY <1>1, <1>2 DEF Batch

\* The names of a batch are different, and are part of the listing.
LEMMA BatchListed ==
    ASSUME IInv, step = "descriptors"
    PROVE  /\ Batch \in [1..Len(Batch) -> Range(Batch)] /\ IsInjective(Batch)
           /\ Range(Batch) \subseteq listed /\ Range(Batch) \in SUBSET Names
           /\ Len(Batch) = Cardinality(Range(Batch))
           /\ \A n \in Range(Batch) : \E k \in (offset + 1)..BatchEnd : n = names[k]
           /\ \A k \in (offset + 1)..BatchEnd : names[k] \in Range(Batch)
  <1>1. TypeOK /\ IsInjective(names) /\ Range(names) = listed
    BY DEF IInv, ListingIsListed, Reading
  <1>2. /\ BatchEnd \in Nat /\ offset \in Nat /\ offset <= BatchEnd /\ BatchEnd <= Len(names)
        /\ Batch \in Seq(Names) /\ Len(Batch) = BatchEnd - offset
        /\ \A i \in 1..(BatchEnd - offset) : Batch[i] = names[offset + i]
        /\ names \in Seq(Names)
    BY <1>1, BatchNames DEF TypeOK
  <1> HIDE DEF Batch, BatchEnd
  <1>3. DOMAIN Batch = 1..Len(Batch) /\ Len(Batch) \in Nat /\ DOMAIN names = 1..Len(names)
    BY <1>2
  <1>4. \A i \in DOMAIN Batch : Batch[i] = names[offset + i] /\ offset + i \in DOMAIN names
                                /\ offset + i \in (offset + 1)..BatchEnd
    BY <1>2, <1>3
  <1>5. Batch \in [1..Len(Batch) -> Range(Batch)]
    BY <1>2, <1>3 DEF Range
  <1>6. IsInjective(Batch)
    <2> SUFFICES ASSUME NEW i \in DOMAIN Batch, NEW j \in DOMAIN Batch, Batch[i] = Batch[j]
                 PROVE  i = j
      BY DEF IsInjective
    <2>1. offset + i = offset + j
      BY <1>1, <1>4 DEF IsInjective
    <2> QED
      BY <1>2, <1>3, <2>1
  <1>7. Range(Batch) \subseteq listed /\ Range(Batch) \in SUBSET Names
    BY <1>1, <1>2, <1>4 DEF Range
  <1>8. Len(Batch) = Cardinality(Range(Batch))
    BY <1>3, <1>5, <1>6, <1>7, ListsAll
  <1>9. ASSUME NEW i \in (offset + 1)..BatchEnd PROVE names[i] \in Range(Batch)
    <2>1. i - offset \in DOMAIN Batch /\ offset + (i - offset) = i
      BY <1>2, <1>3
    <2> QED
      BY <1>4, <2>1 DEF Range
  <1> QED
    BY <1>4, <1>5, <1>6, <1>7, <1>8, <1>9 DEF Range

\* Descriptors that match a batch are those of its names, each once (pigeonhole).
LEMMA MatchedIsBatch ==
    ASSUME IInv, step = "descriptors", NEW found \in Descriptions(Batch), Matches(Batch, found)
    PROVE  /\ found \in [1..Len(Batch) -> Registered] /\ DOMAIN found = 1..Len(Batch)
           /\ IsInjective(found) /\ Range(found) = Range(Batch)
  <1>1. /\ Len(Batch) \in Nat /\ Range(Batch) \in SUBSET Names
        /\ Len(Batch) = Cardinality(Range(Batch))
    BY BatchNames, BatchListed DEF IInv, TypeOK
  <1>2. PICK k \in 0..Len(Batch) : found \in [1..k -> Registered]
    BY DEF Descriptions
  <1> HIDE DEF Batch
  <1>3. Len(found) = k /\ DOMAIN found = 1..k /\ k \in Nat
    BY <1>1, <1>2
  <1>4. k = Len(Batch) /\ IsInjective(found) /\ Range(found) \subseteq Range(Batch)
    BY <1>3 DEF Matches
  <1>5. found \in [1..k -> Range(Batch)]
    BY <1>2, <1>3, <1>4 DEF Range
  <1>6. Range(found) = Range(Batch)
    BY <1>1, <1>3, <1>4, <1>5, ListsAll
  <1> QED
    BY <1>2, <1>3, <1>4, <1>6

\* Partitions of the first names of a listing and partitions of the names that follow
\* are together partitions of all these names, each once.
LEMMA JoinedReads ==
    ASSUME NEW listing \in Seq(Names), IsInjective(listing),
           NEW first \in Seq([name : Names, version : 1..MaxVersions]),
           NEW more \in Seq([name : Names, version : 1..MaxVersions]),
           NEW a \in Nat, NEW b \in Nat, a <= b, b <= Len(listing),
           PartitionsOf(first, listing, 0, a), PartitionsOf(more, listing, a, b)
    PROVE  /\ first \o more \in Seq([name : Names, version : 1..MaxVersions])
           /\ \A i \in DOMAIN (first \o more) :
                  (\E k \in DOMAIN first : (first \o more)[i] = first[k])
                  \/ (\E k \in DOMAIN more : (first \o more)[i] = more[k])
           /\ PartitionsOf(first \o more, listing, 0, b)
  <1> DEFINE all == first \o more
  <1>0. /\ a = Len(first) /\ b = a + Len(more) /\ DOMAIN first = 1..a /\ DOMAIN more = 1..Len(more)
        /\ \A i, j \in 1..a : first[i].name = first[j].name => i = j
        /\ \A i \in 1..a : \E k \in 1..a : first[i].name = listing[k]
        /\ \A k \in 1..a : \E i \in 1..a : first[i].name = listing[k]
        /\ \A i, j \in 1..Len(more) : more[i].name = more[j].name => i = j
        /\ \A i \in 1..Len(more) : \E k \in (a + 1)..b : more[i].name = listing[k]
        /\ \A k \in (a + 1)..b : \E i \in 1..Len(more) : more[i].name = listing[k]
    <2>1. /\ Len(first) = a - 0 /\ Len(more) = b - a
          /\ DOMAIN first = 1..Len(first) /\ DOMAIN more = 1..Len(more)
      BY DEF PartitionsOf
    <2>2. a = Len(first) /\ b = a + Len(more)
      BY <2>1
    <2>3. ASSUME NEW i \in 1..a PROVE \E k \in 1..a : first[i].name = listing[k]
      <3>1. PICK k \in (0 + 1)..a : first[i].name = listing[k]
        BY <2>1, <2>2 DEF PartitionsOf
      <3> QED
        BY <3>1
    <2>4. ASSUME NEW k \in 1..a PROVE \E i \in 1..a : first[i].name = listing[k]
      <3>1. k \in (0 + 1)..a
        OBVIOUS
      <3> QED
        BY <2>1, <2>2, <3>1 DEF PartitionsOf
    <2>5. /\ \A i, j \in 1..a : first[i].name = first[j].name => i = j
          /\ \A i, j \in 1..Len(more) : more[i].name = more[j].name => i = j
      BY <2>1, <2>2 DEF PartitionsOf
    <2>6. /\ \A i \in 1..Len(more) : \E k \in (a + 1)..b : more[i].name = listing[k]
          /\ \A k \in (a + 1)..b : \E i \in 1..Len(more) : more[i].name = listing[k]
      BY <2>1 DEF PartitionsOf
    <2> QED
      BY <2>1, <2>2, <2>3, <2>4, <2>5, <2>6
  <1> USE <1>0
  <1>1. all \in Seq([name : Names, version : 1..MaxVersions]) /\ Len(all) = b
    OBVIOUS
  <1>2. \A i \in 1..a : all[i] = first[i]
    OBVIOUS
  <1>3. \A i \in (a + 1)..b : i - a \in 1..Len(more) /\ all[i] = more[i - a]
    OBVIOUS
  <1>4. DOMAIN listing = 1..Len(listing) /\ Len(listing) \in Nat /\ Len(more) \in Nat
    OBVIOUS
  <1> HIDE DEF all
  <1>5. ASSUME NEW i \in 1..a PROVE \E k \in 1..a : all[i].name = listing[k]
    <2>1. PICK k \in 1..a : first[i].name = listing[k]
      OBVIOUS
    <2> QED
      BY <1>2, <2>1
  <1>6. ASSUME NEW i \in (a + 1)..b PROVE \E k \in (a + 1)..b : all[i].name = listing[k]
    <2>1. i - a \in 1..Len(more) /\ all[i] = more[i - a]
      BY <1>3
    <2>2. PICK k \in (a + 1)..b : more[i - a].name = listing[k]
      BY <2>1
    <2> QED
      BY <2>1, <2>2
  <1>7. \A i \in 1..a, j \in (a + 1)..b : all[i].name # all[j].name
    <2> SUFFICES ASSUME NEW i \in 1..a, NEW j \in (a + 1)..b, all[i].name = all[j].name
                 PROVE  FALSE
      OBVIOUS
    <2>1. PICK k \in 1..a : all[i].name = listing[k]
      BY <1>5
    <2>2. PICK l \in (a + 1)..b : all[j].name = listing[l]
      BY <1>6
    <2>3. k \in DOMAIN listing /\ l \in DOMAIN listing
      BY <1>4
    <2>4. k = l
      BY <2>1, <2>2, <2>3 DEF IsInjective
    <2> QED
      BY <2>4
  <1>8. \A i, j \in 1..b : all[i].name = all[j].name => i = j
    <2> SUFFICES ASSUME NEW i \in 1..b, NEW j \in 1..b, all[i].name = all[j].name PROVE i = j
      OBVIOUS
    <2>1. CASE i <= a /\ j <= a
      <3>1. i \in 1..a /\ j \in 1..a
        BY <2>1
      <3> QED
        BY <1>2, <3>1
    <2>2. CASE i > a /\ j > a
      <3>1. i \in (a + 1)..b /\ j \in (a + 1)..b
        BY <2>2
      <3>2. more[i - a].name = more[j - a].name /\ i - a \in 1..Len(more) /\ j - a \in 1..Len(more)
        BY <1>3, <3>1
      <3>3. i - a = j - a
        BY <3>2
      <3> QED
        BY <3>3
    <2>3. CASE i <= a /\ j > a
      <3>1. i \in 1..a /\ j \in (a + 1)..b
        BY <2>3
      <3> QED
        BY <1>7, <3>1
    <2>4. CASE i > a /\ j <= a
      <3>1. j \in 1..a /\ i \in (a + 1)..b
        BY <2>4
      <3> QED
        BY <1>7, <3>1
    <2> QED
      BY <2>1, <2>2, <2>3, <2>4
  <1>9. ASSUME NEW i \in 1..b PROVE \E k \in 1..b : all[i].name = listing[k]
    <2>1. CASE i \in 1..a
      <3>1. PICK k \in 1..a : all[i].name = listing[k]
        BY <1>5, <2>1
      <3>2. k \in 1..b
        BY <1>4
      <3> QED
        BY <3>1, <3>2
    <2>2. CASE i \in (a + 1)..b
      <3>1. PICK k \in (a + 1)..b : all[i].name = listing[k]
        BY <1>6, <2>2
      <3>2. k \in 1..b
        OBVIOUS
      <3> QED
        BY <3>1, <3>2
    <2> QED
      BY <2>1, <2>2
  <1>10. ASSUME NEW k \in 1..b PROVE \E i \in 1..b : all[i].name = listing[k]
    <2>1. CASE k \in 1..a
      <3>1. PICK i \in 1..a : first[i].name = listing[k]
        BY <2>1
      <3>2. i \in 1..b /\ all[i] = first[i]
        BY <1>2, <1>4
      <3> QED
        BY <3>1, <3>2
    <2>2. CASE k \in (a + 1)..b
      <3>1. PICK i \in 1..Len(more) : more[i].name = listing[k]
        BY <2>2
      <3>2. a + i \in (a + 1)..b /\ a + i \in 1..b /\ (a + i) - a = i
        BY <1>4
      <3>3. all[a + i] = more[i]
        BY <1>3, <3>2
      <3> QED
        BY <3>1, <3>2, <3>3
    <2>3. k \in 1..a \/ k \in (a + 1)..b
      OBVIOUS
    <2> QED
      BY <2>1, <2>2, <2>3
  <1>11. DOMAIN all = 1..b /\ b - 0 = b /\ 0 + 1 = 1
    BY <1>1
  <1>12. PartitionsOf(all, listing, 0, b)
    <2>1. \A i, j \in DOMAIN all : all[i].name = all[j].name => i = j
      BY <1>8, <1>11
    <2>2. ASSUME NEW i \in DOMAIN all PROVE \E k \in (0 + 1)..b : all[i].name = listing[k]
      <3>1. PICK k \in 1..b : all[i].name = listing[k]
        BY <1>9, <1>11
      <3> QED
        BY <3>1
    <2>3. ASSUME NEW k \in (0 + 1)..b PROVE \E i \in DOMAIN all : all[i].name = listing[k]
      <3>1. PICK i \in 1..b : all[i].name = listing[k]
        BY <1>10
      <3> QED
        BY <1>11, <3>1
    <2>4. Len(all) = b - 0
      BY <1>1, <1>11
    <2> QED
      BY <2>1, <2>2, <2>3, <2>4 DEF PartitionsOf
  <1>13. \A i \in DOMAIN all : \/ \E k \in DOMAIN first : all[i] = first[k]
                               \/ \E k \in DOMAIN more : all[i] = more[k]
    <2> SUFFICES ASSUME NEW i \in 1..b
                 PROVE  \/ \E k \in DOMAIN first : all[i] = first[k]
                        \/ \E k \in DOMAIN more : all[i] = more[k]
      BY <1>11
    <2>1. CASE i \in 1..a
      BY <1>2, <2>1
    <2>2. CASE i \in (a + 1)..b
      BY <1>3, <2>2
    <2> QED
      BY <1>4, <2>1, <2>2
  <1> QED
    BY <1>1, <1>12, <1>13 DEF all

\* The partitions of a batch join those read before it.
LEMMA ReadMatched ==
    ASSUME IInv, step = "descriptors", NEW found \in Descriptions(Batch), Matches(Batch, found),
           result' = result \o [i \in DOMAIN found |->
                                   [name |-> found[i], version |-> hms[found[i]]]],
           offset' = BatchEnd,
           step' = IF offset' = Len(names) THEN "compare" ELSE step,
           UNCHANGED <<env, names, outcome, source, listed, current, reported>>,
           upset' \in BOOLEAN
    PROVE  TypeOK' /\ ReadToOffset' /\ VersionsAreCurrent'
  <1>1. TypeOK /\ ReadToOffset /\ VersionsAreCurrent /\ ListingIsListed /\ Reading
    BY DEF IInv, Reading
  <1>2. PICK more : more = [i \in DOMAIN found |-> [name |-> found[i], version |-> hms[found[i]]]]
    OBVIOUS
  <1>3. PICK a, b, n : a = offset /\ b = BatchEnd /\ n = Len(Batch)
    OBVIOUS
  <1>4. /\ a \in Nat /\ b \in Nat /\ n \in Nat /\ n = b - a /\ a <= b /\ b <= Len(names)
        /\ Len(names) \in Nat /\ names \in Seq(Names) /\ IsInjective(names)
    BY <1>1, <1>3, BatchNames DEF TypeOK, ListingIsListed
  <1>5. /\ found \in [1..n -> Registered] /\ DOMAIN found = 1..n
        /\ IsInjective(found) /\ Range(found) = Range(Batch)
    BY <1>3, MatchedIsBatch
  <1>6. ASSUME NEW m \in Range(found) PROVE \E k \in (a + 1)..b : m = names[k]
    <2>1. PICK k \in (offset + 1)..BatchEnd : m = names[k]
      BY <1>5, BatchListed
    <2> QED
      BY <1>3, <2>1
  <1>6a. ASSUME NEW k \in (a + 1)..b PROVE names[k] \in Range(found)
    <2>1. k \in (offset + 1)..BatchEnd
      BY <1>3
    <2>2. names[k] \in Range(Batch)
      BY <2>1, BatchListed
    <2> QED
      BY <1>5, <2>2
  <1>7. \A i \in 1..n : found[i] \in Names /\ hms[found[i]] \in 1..MaxVersions
    <2>1. MaxVersions \in Nat /\ hms \in [Names -> 0..MaxVersions]
      BY <1>1, HivePartitionsAssumption DEF TypeOK
    <2>2. \A m \in Registered : m \in Names /\ hms[m] \in 1..MaxVersions
      BY <2>1 DEF Registered
    <2> QED
      BY <1>5, <2>2
  <1>8. /\ more \in Seq([name : Names, version : 1..MaxVersions]) /\ Len(more) = n
        /\ DOMAIN more = 1..n
        /\ \A i \in 1..n : more[i].name = found[i] /\ more[i].version = hms[found[i]]
    BY <1>2, <1>4, <1>5, <1>7
  <1>9. PartitionsOf(more, names, a, b)
    <2>1. \A i, j \in DOMAIN more : more[i].name = more[j].name => i = j
      BY <1>5, <1>8 DEF IsInjective
    <2>2. ASSUME NEW i \in DOMAIN more PROVE \E k \in (a + 1)..b : more[i].name = names[k]
      <3>1. found[i] \in Range(found)
        BY <1>5, <1>8 DEF Range
      <3> QED
        BY <1>6, <1>8, <3>1
    <2>3. ASSUME NEW k \in (a + 1)..b PROVE \E i \in DOMAIN more : more[i].name = names[k]
      <3>1. PICK i \in DOMAIN found : found[i] = names[k]
        BY <1>6a DEF Range
      <3> QED
        BY <1>5, <1>8, <3>1
    <2> QED
      BY <1>4, <1>8, <2>1, <2>2, <2>3 DEF PartitionsOf
  <1>10. /\ result \in Seq([name : Names, version : 1..MaxVersions])
         /\ PartitionsOf(result, names, 0, a)
    BY <1>1, <1>3 DEF TypeOK, ReadToOffset
  <1>11. PICK all : all = result \o more
    OBVIOUS
  <1>12. /\ all \in Seq([name : Names, version : 1..MaxVersions])
         /\ \A i \in DOMAIN all : \/ \E k \in DOMAIN result : all[i] = result[k]
                                  \/ \E k \in DOMAIN more : all[i] = more[k]
         /\ PartitionsOf(all, names, 0, b)
    BY <1>4, <1>8, <1>9, <1>10, <1>11, JoinedReads
  <1>13. result' = all /\ offset' = b
    BY <1>2, <1>3, <1>11
  <1>14. TypeOK'
    <2>1. step' \in {"descriptors", "compare"} /\ outcome' = "none"
      BY <1>1 DEF TypeOK
    <2>2. offset' \in 0..Len(names')
      BY <1>4, <1>13
    <2> QED
      BY <1>1, <1>12, <1>13, <2>1, <2>2 DEF TypeOK, env
  <1>15. ReadToOffset'
    <2>1. PartitionsOf(result', names', 0, offset')
      BY <1>12, <1>13
    <2> QED
      BY <2>1 DEF ReadToOffset
  <1>16. VersionsAreCurrent'
    <2>1. \A i \in DOMAIN result : <<result[i].name, result[i].version>> \in current
      BY <1>1 DEF VersionsAreCurrent
    <2>2. \A k \in 1..n : <<more[k].name, more[k].version>> \in current
      <3>1. \A m \in Registered : <<m, hms[m]>> \in current
        BY <1>1 DEF VersionsAreCurrent
      <3> QED
        BY <1>5, <1>8, <3>1
    <2>3. \A i \in DOMAIN all : <<all[i].name, all[i].version>> \in current
      BY <1>8, <1>12, <2>1, <2>2
    <2>4. Reading' => \A m \in Registered' : <<m, hms'[m]>> \in current'
      BY <1>1 DEF VersionsAreCurrent, Registered, env
    <2> QED
      BY <1>13, <2>3, <2>4 DEF VersionsAreCurrent
  <1> QED
    BY <1>14, <1>15, <1>16

\* A batch: read, or refused, and then the table or an answer was not as it should be.
LEMMA ReadBatchIInv == IInv /\ ReadBatch => IInv'
  <1> SUFFICES ASSUME IInv, ReadBatch PROVE IInv'
    OBVIOUS
  <1>1. TypeOK /\ step = "descriptors" /\ Reading /\ outcome = "none"
    BY DEF IInv, ReadBatch, Reading, TypeOK
  <1>2. PICK found \in Descriptions(Batch) :
          /\ IF Matches(Batch, found)
             THEN /\ result' = result \o [i \in DOMAIN found |->
                                             [name |-> found[i], version |-> hms[found[i]]]]
                  /\ offset' = BatchEnd
                  /\ step' = IF offset' = Len(names) THEN "compare" ELSE step
                  /\ UNCHANGED outcome
             ELSE End("error") /\ UNCHANGED <<offset, result>>
          /\ upset' = (upset \/ Range(found) # Described(Batch) \/ ~IsInjective(found))
    BY DEF ReadBatch
  <1>3. UNCHANGED <<env, names, source, listed, current, reported>>
    BY DEF ReadBatch
  <1>4. upset' \in BOOLEAN /\ (upset => upset')
    BY <1>1, <1>2 DEF TypeOK
  <1>5. CASE Matches(Batch, found)
    <2>1. TypeOK' /\ ReadToOffset' /\ VersionsAreCurrent'
      BY <1>1, <1>2, <1>3, <1>4, <1>5, ReadMatched
    <2>2. step' \in {"descriptors", "compare"} /\ outcome' = "none"
      BY <1>1, <1>2, <1>5
    <2>3. EmptyBefore' /\ ListingIsListed'
      BY <1>1, <1>3, <2>2 DEF IInv, EmptyBefore, ListingIsListed
    <2>4. UndisturbedListing'
      BY <1>1, <1>3, <1>4 DEF IInv, UndisturbedListing, Registered, env
    <2> QED
      BY <2>1, <2>2, <2>3, <2>4 DEF IInv, ResultIsTheListing, ScopeIsDoris, NoFalseAlarm
  <1>6. CASE ~Matches(Batch, found)
    <2>1. /\ step' = "end" /\ outcome' = "error"
          /\ UNCHANGED <<env, names, source, listed, current, reported, offset, result>>
      BY <1>2, <1>3, <1>6 DEF End
    <2>2. TypeOK'
      BY <1>1, <1>4, <2>1 DEF TypeOK, env
    <2>3. ASSUME ~upset, Range(found) = Described(Batch), IsInjective(found) PROVE FALSE
      <3>1. Registered = listed
        BY <1>1, <2>3 DEF IInv, UndisturbedListing
      <3>2. /\ Range(Batch) \subseteq listed /\ Range(Batch) \in SUBSET Names
            /\ Len(Batch) = Cardinality(Range(Batch))
        BY <1>1, BatchListed
      <3>3. Range(found) = Range(Batch)
        BY <2>3, <3>1, <3>2 DEF Described, Registered
      <3>4. PICK k \in 0..Len(Batch) : found \in [1..k -> Registered]
        BY DEF Descriptions
      <3>5. Len(Batch) \in Nat
        BY <1>1, BatchNames
      <3> HIDE DEF Batch
      <3>6. k \in Nat /\ Len(found) = k
        BY <3>4, <3>5
      <3>7. found \in [1..k -> Range(Batch)]
        BY <3>3, <3>4 DEF Range
      <3>8. k = Cardinality(Range(Batch))
        BY <2>3, <3>2, <3>3, <3>6, <3>7, ListsAll
      <3> QED
        BY <1>6, <2>3, <3>2, <3>3, <3>6, <3>8 DEF Matches
    <2>4. upset'
      BY <1>2, <2>3
    <2> QED
      BY <2>1, <2>2, <2>4, EndKeeps
  <1> QED
    BY <1>5, <1>6

\* All that was read when the comparison starts: the listing.
LEMMA AllIsRead ==
    ASSUME IInv, step = "compare"
    PROVE  /\ result \in Seq([name : Names, version : 1..MaxVersions])
           /\ \A i, j \in DOMAIN result : result[i].name = result[j].name => i = j
           /\ {result[i].name : i \in DOMAIN result} = listed
           /\ {p.name : p \in Range(result)} = listed
           /\ Len(result) = Cardinality(listed) /\ Cardinality(listed) <= MaxPartitions
           /\ listed \in SUBSET Names
           /\ \A p \in Range(result) : <<p.name, p.version>> \in current
  <1>1. /\ TypeOK /\ IsInjective(names) /\ Range(names) = listed /\ Len(names) <= MaxPartitions
        /\ PartitionsOf(result, names, 0, offset) /\ offset = Len(names)
        /\ VersionsAreCurrent
    BY DEF IInv, ListingIsListed, ReadToOffset, Reading
  <1>2. /\ result \in Seq([name : Names, version : 1..MaxVersions]) /\ listed \in SUBSET Names
        /\ names \in Seq(Names) /\ Len(names) \in Nat /\ DOMAIN names = 1..Len(names)
        /\ names \in [1..Len(names) -> Names]
    BY <1>1 DEF TypeOK
  <1>3. /\ Len(result) = Len(names) - 0
        /\ \A i, j \in DOMAIN result : result[i].name = result[j].name => i = j
        /\ \A i \in DOMAIN result : \E k \in (0 + 1)..Len(names) : result[i].name = names[k]
        /\ \A k \in (0 + 1)..Len(names) : \E i \in DOMAIN result : result[i].name = names[k]
    BY <1>1 DEF PartitionsOf
  <1>4. Len(result) = Len(names)
    BY <1>2, <1>3
  <1>5. ASSUME NEW i \in DOMAIN result PROVE result[i].name \in listed
    <2>1. PICK k \in (0 + 1)..Len(names) : result[i].name = names[k]
      BY <1>3
    <2>2. k \in DOMAIN names
      BY <1>2
    <2> QED
      BY <1>1, <2>1, <2>2 DEF Range
  <1>6. ASSUME NEW m \in listed PROVE \E i \in DOMAIN result : result[i].name = m
    <2>1. PICK k \in DOMAIN names : names[k] = m
      BY <1>1 DEF Range
    <2>2. k \in (0 + 1)..Len(names)
      BY <1>2
    <2> QED
      BY <1>3, <2>1, <2>2
  <1>7. {result[i].name : i \in DOMAIN result} = listed
    BY <1>5, <1>6
  <1>8. {p.name : p \in Range(result)} = listed
    BY <1>5, <1>6 DEF Range
  <1>9. Len(names) = Cardinality(listed)
    <2>1. names \in [1..Len(names) -> listed]
      BY <1>1, <1>2 DEF Range
    <2> QED
      BY <1>1, <1>2, <2>1, ListsAll
  <1>10. \A p \in Range(result) : <<p.name, p.version>> \in current
    BY <1>1 DEF VersionsAreCurrent, Range
  <1> QED
    BY <1>1, <1>2, <1>3, <1>4, <1>7, <1>8, <1>9, <1>10

\* The comparison: a plan of what Doris reports, or an error with a cause.
LEMMA CompareIInv == IInv /\ Compare => IInv'
  <1> SUFFICES ASSUME IInv, Compare PROVE IInv'
    OBVIOUS
  <1>1. TypeOK /\ step = "compare" /\ Reading
    BY DEF IInv, Compare, Reading
  <1>2. PICK rows \in Reports :
          /\ reported' = rows
          /\ upset' = (upset \/ rows # listed)
          /\ step' = "end"
          /\ outcome' = IF Agree(rows, result) THEN "planned" ELSE "error"
    BY DEF Compare, End
  <1>3. UNCHANGED <<hms, doris, changes, names, offset, result, source, listed, current>>
    BY DEF Compare, env
  <1>4. rows \in SUBSET Names
    BY <1>1, ReportsAreKnown
  <1>5. upset' \in BOOLEAN
    BY <1>1, <1>2 DEF TypeOK
  <1>6. TypeOK'
    BY <1>1, <1>2, <1>3, <1>4, <1>5 DEF TypeOK
  <1>7. /\ listed \in SUBSET Names
        /\ Agree(rows, result) <=> IF source = "values" THEN CountsOf(rows) = CountsOf(listed)
                                   ELSE SetToBag(rows) = SetToBag(listed)
    BY <1>1, <1>4, AllIsRead, AgreeMeans
  <1>8. CASE Agree(rows, result)
    <2>1. outcome' = "planned"
      BY <1>2, <1>8
    <2>2. ResultIsTheListing'
      BY <1>1, <1>3, <1>6, AllIsRead DEF ResultIsTheListing
    <2>3. source = "names" => rows = listed
      BY <1>7, <1>8 DEF SetToBag
    <2>4. source \in {"values", "names"}
      BY <1>1 DEF TypeOK
    <2>5. ASSUME NEW v PROVE Count(listed, v) = Count(rows, v)
      <3>1. CASE source = "names"
        BY <2>3, <3>1
      <3>2. CASE source = "values"
        <4>1. CountsOf(listed) = CountsOf(rows)
          BY <1>7, <1>8, <3>2
        <4>2. listed \in SUBSET Names
          BY <1>7
        <4> QED
          BY <1>4, <4>1, <4>2, EqualCounts
      <3> QED
        BY <2>4, <3>1, <3>2
    <2>6. ScopeIsDoris'
      BY <1>2, <1>3, <2>3, <2>5 DEF ScopeIsDoris, Count
    <2> QED
      BY <1>2, <1>3, <1>6, <2>1, <2>2, <2>6
      DEF IInv, EmptyBefore, ListingIsListed, ReadToOffset, VersionsAreCurrent,
          UndisturbedListing, Reading, NoFalseAlarm
  <1>9. CASE ~Agree(rows, result)
    <2>1. outcome' = "error"
      BY <1>2, <1>9
    <2>2. rows # listed
      BY <1>7, <1>9
    <2>3. upset'
      BY <1>2, <2>2
    <2> QED
      BY <1>2, <1>3, <1>6, <2>1, <2>3, EndKeeps
  <1> QED
    BY <1>8, <1>9

\* A request that fails ends in an error with a cause.
LEMMA RequestFailsIInv == IInv /\ RequestFails => IInv'
  <1> SUFFICES ASSUME IInv, RequestFails PROVE IInv'
    OBVIOUS
  <1>1. /\ step' = "end" /\ outcome' = "error" /\ upset' = TRUE
        /\ UNCHANGED <<hms, doris, changes, names, offset, result, source, listed, current, reported>>
    BY DEF RequestFails, End, env
  <1>2. TypeOK'
    BY <1>1 DEF IInv, TypeOK
  <1> QED
    BY <1>1, <1>2, EndKeeps

\* A change of the table: what is registered stays among the descriptors seen, and
\* the plan is disturbed if a name comes or goes after the listing.
LEMMA ChangeIInv ==
    ASSUME IInv, NEW n \in Names, NEW version \in 0..MaxVersions, step # "end",
           Change(n, version), current' \subseteq Names \X (1..MaxVersions),
           current \subseteq current', version # 0 => <<n, version>> \in current',
           upset' \in BOOLEAN,
           ~upset' => ~upset /\ (step # "names" => (version = 0 <=> hms[n] = 0))
    PROVE  IInv'
  <1>1. /\ TypeOK /\ hms \in [Names -> 0..MaxVersions] /\ outcome = "none"
        /\ changes \in 0..MaxChanges /\ changes < MaxChanges
    BY DEF IInv, TypeOK, Change
  <1>2. /\ hms' = [hms EXCEPT ![n] = version] /\ changes' = changes + 1
        /\ UNCHANGED <<doris, step, names, offset, result, source, outcome, listed, reported>>
    BY DEF Change
  <1>3. TypeOK'
    <2>1. hms' \in [Names -> 0..MaxVersions] /\ changes' \in 0..MaxChanges
      BY <1>1, <1>2, HivePartitionsAssumption
    <2> QED
      BY <1>1, <1>2, <2>1 DEF TypeOK
  <1>4. EmptyBefore' /\ ListingIsListed' /\ ReadToOffset'
    BY <1>2 DEF IInv, EmptyBefore, ListingIsListed, ReadToOffset, Reading
  <1>5. VersionsAreCurrent'
    <2>1. \A i \in DOMAIN result : <<result[i].name, result[i].version>> \in current
      BY DEF IInv, VersionsAreCurrent
    <2>2. ASSUME Reading', NEW m \in Registered' PROVE <<m, hms'[m]>> \in current'
      <3>1. CASE m = n
        BY <1>1, <1>2, <2>2, <3>1 DEF Registered
      <3>2. CASE m # n
        BY <1>1, <1>2, <2>2, <3>2 DEF Registered, Reading, IInv, VersionsAreCurrent
      <3> QED
        BY <3>1, <3>2
    <2> QED
      BY <1>2, <2>1, <2>2 DEF VersionsAreCurrent
  <1>6. UndisturbedListing'
    <2> SUFFICES ASSUME Reading', ~upset' PROVE Registered' = listed'
      BY DEF UndisturbedListing
    <2>1. Reading /\ ~upset /\ step # "names" /\ Registered = listed
      BY <1>2 DEF Reading, IInv, UndisturbedListing
    <2>2. version = 0 <=> hms[n] = 0
      BY <2>1
    <2>3. Registered' = Registered
      BY <1>1, <1>2, <2>2 DEF Registered
    <2> QED
      BY <1>2, <2>1, <2>3
  <1> QED
    BY <1>1, <1>2, <1>3, <1>4, <1>5, <1>6
    DEF IInv, ResultIsTheListing, ScopeIsDoris, NoFalseAlarm

LEMMA RegisterIInv ==
    ASSUME NEW n \in Names, NEW version \in 1..MaxVersions, IInv, Register(n, version)
    PROVE  IInv'
  <1>1. /\ TypeOK /\ current \subseteq Names \X (1..MaxVersions) /\ upset \in BOOLEAN
        /\ MaxVersions \in Nat /\ version \in 0..MaxVersions /\ version # 0
    BY HivePartitionsAssumption DEF IInv, TypeOK
  <1>2. /\ step # "end" /\ Change(n, version)
        /\ current' = current \cup {<<n, version>>}
        /\ upset' = (upset \/ (hms[n] = 0 /\ step # "names"))
    BY DEF Register
  <1>3. current' \subseteq Names \X (1..MaxVersions) /\ <<n, version>> \in current'
    BY <1>1, <1>2
  <1>4. /\ upset' \in BOOLEAN
        /\ ~upset' => ~upset /\ (step # "names" => (version = 0 <=> hms[n] = 0))
    BY <1>1, <1>2
  <1>5. current \subseteq current'
    BY <1>2
  <1> QED
    BY <1>1, <1>2, <1>3, <1>4, <1>5, ChangeIInv

LEMMA DropIInv ==
    ASSUME NEW n \in Names, IInv, Drop(n)
    PROVE  IInv'
  <1>1. /\ TypeOK /\ current \subseteq Names \X (1..MaxVersions) /\ upset \in BOOLEAN
        /\ 0 \in 0..MaxVersions
    BY HivePartitionsAssumption DEF IInv, TypeOK
  <1>2. /\ step # "end" /\ Change(n, 0) /\ current' = current
        /\ upset' = (upset \/ step # "names")
    BY DEF Drop
  <1>3. /\ upset' \in BOOLEAN
        /\ ~upset' => ~upset /\ (step # "names" => (0 = 0 <=> hms[n] = 0))
    BY <1>1, <1>2
  <1> QED
    BY <1>1, <1>2, <1>3, ChangeIInv

LEMMA NextIInv == IInv /\ [Next]_vars => IInv'
  <1> SUFFICES ASSUME IInv, [Next]_vars PROVE IInv'
    OBVIOUS
  <1>1. CASE Plan
    BY <1>1, ListNamesIInv, ReadBatchIInv, CompareIInv DEF Plan
  <1>2. CASE RequestFails
    BY <1>2, RequestFailsIInv
  <1>3. ASSUME NEW n \in Names, Drop(n) PROVE IInv'
    BY <1>3, DropIInv
  <1>4. ASSUME NEW n \in Names, NEW v \in 1..MaxVersions, Register(n, v) PROVE IInv'
    BY <1>4, RegisterIInv
  <1>5. CASE Refresh
    <2>1. /\ doris' = Registered
          /\ UNCHANGED <<hms, changes, step, names, offset, result, source, outcome, listed,
                         current, reported, upset>>
      BY <1>5 DEF Refresh
    <2>2. TypeOK'
      BY <2>1 DEF IInv, TypeOK, Registered
    <2> QED
      BY <2>1, <2>2 DEF IInv, EmptyBefore, ListingIsListed, ReadToOffset, VersionsAreCurrent,
         UndisturbedListing, Reading, Registered, ResultIsTheListing, ScopeIsDoris, NoFalseAlarm
  <1>6. CASE UNCHANGED vars
    BY <1>6 DEF vars, IInv, TypeOK, EmptyBefore, ListingIsListed, ReadToOffset,
       VersionsAreCurrent, UndisturbedListing, Reading, Registered, ResultIsTheListing,
       ScopeIsDoris, NoFalseAlarm
  <1> QED
    BY <1>1, <1>2, <1>3, <1>4, <1>5, <1>6 DEF Next, Ended

-----------------------------------------------------------------------------
(* The theorems.                                                           *)

LEMMA Invariance == SafeSpec => []IInv
  <1>1. Init => IInv
    BY InitIInv
  <1>2. IInv /\ [Next]_vars => IInv'
    BY NextIInv
  <1> QED
    BY <1>1, <1>2, PTL DEF SafeSpec

\* A plan is the listing: HiveMetadataClient.partitions mixes nothing up, truncates
\* nothing and returns no descriptor of another time, whatever happens between its
\* requests and in whatever order HMS answers.
THEOREM ResultIsTheListingSafe == SafeSpec => []ResultIsTheListing
  <1>1. IInv => ResultIsTheListing
    BY DEF IInv
  <1> QED
    BY <1>1, Invariance, PTL

\* What discover_external accepts has as many partitions of every value as Doris
\* reports, and the very names if it reports names.
THEOREM ScopeIsDorisSafe == SafeSpec => []ScopeIsDoris
  <1>1. IInv => ScopeIsDoris
    BY DEF IInv
  <1> QED
    BY <1>1, Invariance, PTL

\* Without changes and failures the checks of _hms.py and discover_external never
\* refuse a table, and a table with too many partitions is never an error.
THEOREM NoFalseAlarmSafe == SafeSpec => []NoFalseAlarm
  <1>1. IInv => NoFalseAlarm
    BY DEF IInv
  <1> QED
    BY <1>1, Invariance, PTL
=============================================================================
