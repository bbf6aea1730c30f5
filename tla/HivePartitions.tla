--------------------------- MODULE HivePartitions ---------------------------
(***************************************************************************)
(* The partitions of a native read: HiveMetadataClient.partitions of       *)
(* _hms.py lists at most max_partitions + 1 names in one call and fetches  *)
(* the descriptors in batches by further calls; discover_external then     *)
(* compares them with what Doris reports.  Partitions are registered,      *)
(* dropped and altered in between, and Doris may report an older state.    *)
(*                                                                         *)
(* Doris reports typed values ($partitions) or names (SHOW PARTITIONS).    *)
(* Names tell partitions apart; values may not: q=01 and q=1 are both 1.   *)
(***************************************************************************)
EXTENDS Naturals, Bags, SequencesExt

CONSTANTS
    Names,          \* partition names
    ValueOf,        \* the typed values a name stands for
    MaxPartitions,  \* options.max_partitions
    BatchSize,      \* names per request (256 in the code)
    MaxVersions,    \* bound on the descriptors a partition has had
    MaxChanges      \* bound on the changes made to the table while it is planned

ASSUME HivePartitionsAssumption ==
    /\ IsFiniteSet(Names)
    /\ Names = DOMAIN ValueOf
    /\ MaxPartitions \in Nat \ {0} /\ BatchSize \in Nat \ {0}
    /\ MaxVersions \in Nat \ {0} /\ MaxChanges \in Nat

VARIABLES
    hms,        \* hms[n]: the descriptor n is registered with, 0 if it is not
    doris,      \* the partitions Doris knows of
    step,       \* the request that is next, or "end"
    names,      \* the listing
    offset,     \* names whose descriptors were read
    result,     \* the partitions so far: name and descriptor
    source,     \* what Doris is asked for: "values" or "names"
    outcome,    \* "none", then "planned", "doris" (not applicable) or "error"
    listed,     \* what was registered when names were listed (history)
    current,    \* descriptors registered at some time since then (history)
    reported,   \* what Doris reported (history)
    changes,    \* number of changes made (history)
    upset       \* there was a change, a stale report, nonsense, or a failure (history)

vars == <<hms, doris, step, names, offset, result, source, outcome, listed, current, reported, changes,
          upset>>
env == <<hms, doris, changes>>

Registered == {n \in Names : hms[n] # 0}

TypeOK ==
    /\ hms \in [Names -> 0..MaxVersions]
    /\ doris \subseteq Names
    /\ step \in {"names", "descriptors", "compare", "end"}
    /\ names \in Seq(Names) /\ Len(names) <= MaxPartitions + 1
    /\ offset \in 0..Len(names)
    /\ result \in Seq([name : Names, version : 1..MaxVersions])
    /\ source \in {"values", "names"}
    /\ outcome \in {"none", "planned", "doris", "error"}
    /\ outcome # "none" <=> step = "end"
    /\ listed \subseteq Names
    /\ current \subseteq Names \X (1..MaxVersions)
    /\ reported \subseteq Names
    /\ changes \in 0..MaxChanges
    /\ upset \in BOOLEAN

Init ==
    /\ hms \in [Names -> {0, 1}]
    /\ doris \in SUBSET Names
    /\ step = "names"
    /\ names = <<>>
    /\ offset = 0
    /\ result = <<>>
    /\ source \in {"values", "names"}
    /\ outcome = "none"
    /\ listed = {}
    /\ current = {}
    /\ reported = {}
    /\ changes = 0
    /\ upset = FALSE

End(how) ==
    /\ step' = "end"
    /\ outcome' = how

-----------------------------------------------------------------------------
(* The client.                                                             *)

\* Mutant: the listing is cut off at the limit.
AskedForExactly == MaxPartitions

\* One name more than allowed shows that there are too many.
AskedFor == MaxPartitions + 1

\* HMS lists as many names as it is asked for, or all there are, in an order of its own.
Listings ==
    LET size == IF Cardinality(Registered) < AskedFor THEN Cardinality(Registered) ELSE AskedFor
    IN  {listing \in [1..size -> Registered] : IsInjective(listing)}

\* get_partition_names.
ListNames ==
    /\ step = "names"
    /\ names' \in Listings
    /\ IF Len(names') > MaxPartitions THEN End("doris")
       ELSE /\ step' = IF names' = <<>> THEN "compare" ELSE "descriptors"
            /\ UNCHANGED outcome
    /\ listed' = Registered
    /\ current' = {<<n, hms[n]>> : n \in Registered}
    /\ UNCHANGED <<env, offset, result, source, reported, upset>>

\* Mutant: the last name of the listing is never reached.
BatchEndShort == IF offset + BatchSize < Len(names) THEN offset + BatchSize ELSE Len(names) - 1

\* The names of the next request.
BatchEnd == IF offset + BatchSize < Len(names) THEN offset + BatchSize ELSE Len(names)

Batch == SubSeq(names, offset + 1, BatchEnd)

\* Mutant: the number of descriptors is not compared.
MatchesInValues(batch, found) == IsInjective(found) /\ Range(found) \subseteq Range(batch)

\* Mutant: descriptors are expected in the order of the names.
MatchesInOrder(batch, found) == found = batch

\* As many descriptors as names, each with the values of a different one of them.
Matches(batch, found) ==
    Len(found) = Len(batch) /\ IsInjective(found) /\ Range(found) \subseteq Range(batch)

\* get_partitions_by_names leaves out what is dropped and has an order of its own;
\* the code does not trust it to describe the partitions it is asked for.
Described(batch) == {n \in Range(batch) : hms[n] # 0}
Descriptions(batch) == UNION {[1..k -> Registered] : k \in 0..Len(batch)}

\* A batch of descriptors.
ReadBatch ==
    /\ step = "descriptors"
    /\ \E found \in Descriptions(Batch) :
          /\ IF Matches(Batch, found)
             THEN /\ result' = result \o [i \in DOMAIN found |->
                                             [name |-> found[i], version |-> hms[found[i]]]]
                  /\ offset' = BatchEnd
                  /\ step' = IF offset' = Len(names) THEN "compare" ELSE step
                  /\ UNCHANGED outcome
             ELSE End("error") /\ UNCHANGED <<offset, result>>
          /\ upset' = (upset \/ Range(found) # Described(Batch) \/ ~IsInjective(found))
    /\ UNCHANGED <<env, names, source, listed, current, reported>>

\* Mutant: equal sets of values pass for equal partitions.
AgreeAsSets(rows, partitions) ==
    {ValueOf[n] : n \in rows} = {ValueOf[p.name] : p \in Range(partitions)}

\* Counter(declared) = Counter(observed): every value as often on both sides,
\* or every name.
Agree(rows, partitions) ==
    LET values(seq) == ToBag([i \in DOMAIN seq |-> ValueOf[seq[i]]])
        declared == [i \in DOMAIN partitions |-> partitions[i].name]
    IN  IF source = "values" THEN values(SetToSeq(rows)) = values(declared)
                             ELSE SetToBag(rows) = ToBag(declared)

\* SELECT ... LIMIT max_partitions + 1 of $partitions, or SHOW PARTITIONS.
Reports ==
    IF source = "names" \/ Cardinality(doris) <= AskedFor THEN {doris}
    ELSE {rows \in SUBSET doris : Cardinality(rows) = AskedFor}

\* The comparison with Doris.
Compare ==
    /\ step = "compare"
    /\ \E rows \in Reports :
          /\ reported' = rows
          /\ upset' = (upset \/ rows # listed)
          /\ End(IF Agree(rows, result) THEN "planned" ELSE "error")
    /\ UNCHANGED <<env, names, offset, result, source, listed, current>>

\* A request to HMS or Doris fails, or its answer makes no sense at all.
RequestFails ==
    /\ step # "end"
    /\ End("error")
    /\ upset' = TRUE
    /\ UNCHANGED <<env, names, offset, result, source, listed, current, reported>>

-----------------------------------------------------------------------------
(* The table, changed by others, and Doris's cache of it.                  *)

Change(n, version) ==
    /\ changes < MaxChanges
    /\ changes' = changes + 1
    /\ hms' = [hms EXCEPT ![n] = version]
    /\ UNCHANGED <<doris, step, names, offset, result, source, outcome, listed, reported>>

\* ADD PARTITION, or ALTER PARTITION ... SET LOCATION.
Register(n, version) ==
    /\ step # "end" /\ version # hms[n]
    /\ Change(n, version)
    /\ current' = current \cup {<<n, version>>}
    /\ upset' = (upset \/ (hms[n] = 0 /\ step # "names"))

Drop(n) ==
    /\ step # "end" /\ hms[n] # 0
    /\ Change(n, 0)
    /\ UNCHANGED current
    /\ upset' = (upset \/ step # "names")

\* Doris refreshes its metadata.
Refresh ==
    /\ step # "end" /\ doris # Registered
    /\ doris' = Registered
    /\ UNCHANGED <<hms, changes, step, names, offset, result, source, outcome, listed, current,
                   reported, upset>>

Ended == step = "end" /\ UNCHANGED vars

Plan == ListNames \/ ReadBatch \/ Compare

Next ==
    \/ Plan \/ RequestFails
    \/ \E n \in Names : Drop(n) \/ \E v \in 1..MaxVersions : Register(n, v)
    \/ Refresh
    \/ Ended

SafeSpec == Init /\ [][Next]_vars

\* Every request of the driver has a timeout; that one fails is not relied on.
Spec == SafeSpec /\ WF_vars(Plan)

-----------------------------------------------------------------------------
(* Correctness.                                                            *)

\* A plan has every partition that was registered when the names were listed, each
\* once and none besides, with a descriptor it has had since: batches read later mix
\* nothing up, miss nothing that was dropped, and the limit truncates nothing.
ResultIsTheListing ==
    /\ TypeOK
    /\ outcome = "planned" =>
          /\ {p.name : p \in Range(result)} = listed
          /\ Len(result) = Cardinality(listed)
          /\ Cardinality(listed) <= MaxPartitions
          /\ \A p \in Range(result) : <<p.name, p.version>> \in current

\* "names such as q=01 and q=1 remain distinct" (native-read.md): a plan has as many
\* partitions of every typed value as Doris reports, and the very same if it reports
\* names, however old its report is.
ScopeIsDoris ==
    outcome = "planned" =>
        /\ \A v \in Range(ValueOf) :
              Cardinality({n \in listed : ValueOf[n] = v})
                  = Cardinality({n \in reported : ValueOf[n] = v})
        /\ source = "names" => reported = listed

\* An error is never raised for a table that nobody registers or drops partitions
\* of, with a Doris that knows them; and too many partitions are never an error.
NoFalseAlarm ==
    /\ outcome = "error" => upset
    /\ outcome = "doris" => Cardinality(listed) > MaxPartitions

\* Planning ends, whatever happens to the table.
Terminates == <>(outcome # "none")
=============================================================================
