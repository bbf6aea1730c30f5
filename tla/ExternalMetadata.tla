-------------------------- MODULE ExternalMetadata --------------------------
(***************************************************************************)
(* discover_external of _external_metadata.py with the reader of           *)
(* _metadata.py and the HMS requests of _hms.py: a ladder of requests on   *)
(* the driver that ends with a table fit for a native read, with a reason  *)
(* to read through Doris, or with an error.  Doris answers a request with  *)
(* rows, with no rows or with a MySQL error; whether an error says that a  *)
(* metadata source does not exist is read off its code and wording.        *)
(*                                                                         *)
(* Rows are the set of issues the code could find in them.  Their contents *)
(* (names, types, values) are compared in HivePartitions.                  *)
(***************************************************************************)
EXTENDS Naturals, FiniteSets, FiniteSetsExt

CONSTANTS
    Errors,     \* MySQL errors: code, the phrases the code looks for, and the truth
    MaxIssues   \* bound on the issues of one answer

\* What Doris may lack.  The truth about an error is that access was denied, or
\* which sources it says are absent.
Features == {"session", "catalog", "show-catalog", "columns", "partitions", "show-partitions"}

DenialCodes == {1044, 1045, 1142, 1143, 1221, 1227, 5087}
DenialWords == {"denied", "permission", "authentication", "not authorized"}

\* Doris names a denial by its code or in words.  A phrase comes with those in it.
ASSUME ExternalMetadataAssumption ==
    /\ MaxIssues \in Nat
    /\ \A e \in Errors :
          /\ e.denied \in BOOLEAN /\ e.absent \subseteq Features
          /\ e.denied => /\ e.absent = {}
                         /\ e.code \in DenialCodes \/ e.words \cap DenialWords # {}
          /\ "catalogs" \in e.words => "catalog" \in e.words
          /\ e.words \cap {"$partitions", "partition_values"} # {} => "partition" \in e.words

VARIABLES
    timestamp,  \* the table has a timestamp column
    keyed,      \* the table has partition keys
    stage,      \* the request that is next
    origins,    \* the source whose rows are examined for each fact: reader.origins,
                \* once they pass
    hms,        \* the HMS transport: none, open or closed
    path,       \* the outcome: "native" stands for eligible metadata
    found,      \* what came to light so far (history)
    lacking,    \* the sources that had nothing to say: absent, or empty (history)
    asked       \* requests sent (history)

vars == <<timestamp, keyed, stage, origins, hms, path, found, lacking, asked>>

Preferred == [catalog |-> "catalogs()", columns |-> "information_schema.columns",
              session |-> "session-select", partitions |-> "$partitions"]
Alternate == [catalog |-> "show-catalog", columns |-> "describe",
              session |-> "show-variables", partitions |-> "show-partitions"]
Facts == DOMAIN Preferred
Sources == {Preferred[f] : f \in Facts} \cup {Alternate[f] : f \in Facts}

Stages == {"connect", "version", "catalogs", "show_catalog", "show_catalogs", "columns", "describe",
           "session", "show_mapping", "show_timezone", "hms", "table", "partition_names",
           "partition_values", "show_partitions", "end"}

TypeOK ==
    /\ timestamp \in BOOLEAN /\ keyed \in BOOLEAN
    /\ stage \in Stages
    /\ origins \in [Facts -> {"none"} \cup Sources]
    /\ \A f \in Facts : origins[f] \in {"none", Preferred[f], Alternate[f]}
    /\ hms \in {"none", "open", "closed"}
    /\ hms = "open" <=>
          stage \in {"table", "partition_names", "partition_values", "show_partitions"}
    /\ path \in {"undecided", "native", "doris", "error"}
    /\ path = "undecided" <=> stage # "end"
    /\ found \subseteq {"inapplicable", "contradiction", "denied", "failed"}
    /\ lacking \subseteq {Preferred[f] : f \in Facts}
    /\ asked \in 0 .. Cardinality(Stages) - 1

Init ==
    /\ timestamp \in BOOLEAN
    /\ keyed \in BOOLEAN
    /\ stage = "connect"
    /\ origins = [f \in Facts |-> "none"]
    /\ hms = "none"
    /\ path = "undecided"
    /\ found = {}
    /\ lacking = {}
    /\ asked = 0

-----------------------------------------------------------------------------
(* Errors.                                                                 *)

\* Each source is known to be absent by its own codes and words.
Missing(e, source) ==
    LET says(words) == e.words \cap words # {}
    IN  CASE source = "session" ->
               \/ e.code = 1193
               \/ e.code = 1105 /\ {"unknown", "variable"} \subseteq e.words
          [] source = "catalog" ->
               \/ e.code \in {1054, 1305}
               \/ /\ e.code \in {1064, 1105} /\ says({"catalogs"})
                  /\ says({"unknown", "not found", "no matching", "syntax"})
          [] source = "columns" ->
               \/ e.code = 1054
               \/ /\ e.code \in {1105, 1109, 1146} /\ says({"information_schema", "columns"})
                  /\ says({"unknown", "not exist", "not found"})
          [] source = "partitions" ->
               /\ e.code \in {1054, 1105, 1109, 1146, 1305}
               /\ says({"$partitions", "partition_values"})
               /\ says({"unknown", "not exist", "not found", "unsupported"})
          [] source \in {"show-catalog", "show-partitions"} ->
               /\ e.code \in {1064, 1105}
               /\ says({IF source = "show-catalog" THEN "catalog" ELSE "partition"})
               /\ says({"syntax", "unsupported", "not supported"})

\* An error names the sources whose absence it means, as the code knows their absence
\* to be named, and no others; it does not sound like a denial.
ASSUME ErrorsNameWhatIsAbsent ==
    \A e \in Errors : ~e.denied =>
        /\ e.absent = {source \in Features : Missing(e, source)}
        /\ e.code \notin DenialCodes /\ e.words \cap DenialWords = {}

\* Mutant: a denial that mentions an unknown object counts as absence.
CapabilityMissingDenied(e, source) == Missing(e, source)

\* Mutant: any table that does not exist is an absent source.
CapabilityMissingAnyTable(e, source) ==
    /\ e.code \notin DenialCodes /\ e.words \cap DenialWords = {}
    /\ Missing(e, source) \/ e.code = 1146

\* capability_missing: an error that sounds like a denial never counts as absence.
CapabilityMissing(e, source) ==
    /\ e.code \notin DenialCodes /\ e.words \cap DenialWords = {}
    /\ Missing(e, source)

-----------------------------------------------------------------------------
(* Answers.  The checks of each step in the order of the code; those made  *)
(* in turn for each column or partition share a rank.                      *)

Ranks == [
    catalog |-> <<{"identity"}, {"kind"}, {"properties"}, {"controller"}, {"auth or mapping"},
                  {"no uri"}, {"uri not advertised"}>>,
    columns |-> <<{"declaration"}, {"nested"}, {"doris type"}>>,
    session |-> <<{"incomplete"}, {"positional", "mapping"}, {"not utc"}>>,
    table |-> <<{"view"}, {"descriptor"}, {"table type"}, {"storage"}, {"columns differ"},
                {"hive type", "types differ"}, {"key type"}>>,
    typed |-> <<{"null value", "bad bigint"}, {"values differ"},
                {"partition storage", "partition schema"}>>,
    named |-> <<{"no label", "no name"}, {"names differ"}, {"null value", "bad bigint"},
                {"partition storage", "partition schema"}>>]

\* The limitations native-read.md documents; all other issues are contradictions.
Limits == {"kind", "controller", "auth or mapping", "no uri", "nested", "positional", "not utc",
           "view", "table type", "storage", "hive type", "key type", "no label", "null value",
           "partition storage"}

Nature(issue) == IF issue \in Limits THEN "inapplicable" ELSE "contradiction"

\* Mutant: partitions Doris and HMS disagree about are left to Doris.
NotApplicableForDifference(issue) == issue \in Limits \cup {"values differ"}

\* The issues for which the code raises _NativeReadNotApplicableError.
NotApplicable(issue) == issue \in Limits

\* Mutant: an access controller does not stop the ladder.
FirstIssuesNoController(topic, issues) ==
    LET open == issues \ {"controller"}
        hit == {r \in DOMAIN Ranks[topic] : Ranks[topic][r] \cap open # {}}
    IN  IF hit = {} THEN {} ELSE Ranks[topic][Min(hit)] \cap open

\* The issues one of which ends the step.
FirstIssues(topic, issues) ==
    LET hit == {r \in DOMAIN Ranks[topic] : Ranks[topic][r] \cap issues # {}}
    IN  IF hit = {} THEN {} ELSE Ranks[topic][Min(hit)] \cap issues

\* The timezone matters only to timestamps.
Answers(topic) ==
    {issues \in SUBSET UNION {Ranks[topic][r] : r \in DOMAIN Ranks[topic]} :
        /\ Cardinality(issues) <= MaxIssues
        /\ "not utc" \in issues => timestamp
        /\ ~({"positional", "mapping"} \subseteq issues)}

\* Mutant: only success closes the transport.
EndClosesOnSuccess(outcome, findings) ==
    /\ path' = outcome
    /\ found' = found \cup findings
    /\ stage' = "end"
    /\ hms' = IF hms = "open" /\ outcome = "native" THEN "closed" ELSE hms

\* The end, with the transport and the connection closed by their contexts.
End(outcome, findings) ==
    /\ path' = outcome
    /\ found' = found \cup findings
    /\ stage' = "end"
    /\ hms' = IF hms = "open" THEN "closed" ELSE hms

Proceed(next) ==
    /\ stage' = next
    /\ UNCHANGED <<path, found>>

\* Rows with the given issues: end on the first of them, or go on.
Examine(topic, issues, next) ==
    LET findings == {Nature(i) : i \in issues}
        first == FirstIssues(topic, issues)
    IN  \/ \E i \in first : End(IF NotApplicable(i) THEN "doris" ELSE "error", findings)
        \/ first = {} /\ next = "end" /\ End("native", findings)
        \/ /\ first = {} /\ next # "end"
           /\ stage' = next
           /\ found' = found \cup findings
           /\ UNCHANGED <<path, hms>>

\* What an answer to a request for a source really says (history).
Truth(e, source) ==
    IF e.denied THEN {"denied"} ELSE IF source \in e.absent THEN {} ELSE {"failed"}

\* A request without alternative.
Fails(e) == End("error", Truth(e, "none"))

\* An error ends discovery, or its source is absent and discovery goes on.
TurnOrFail(e, source, next) ==
    IF CapabilityMissing(e, source)
    THEN stage' = next /\ found' = found \cup Truth(e, source) /\ UNCHANGED <<path, hms>>
    ELSE End("error", Truth(e, source))

\* The same for the last source of a fact.
LeaveOrFail(e, source) ==
    IF CapabilityMissing(e, source)
    THEN End("doris", {"inapplicable"} \cup Truth(e, source))
    ELSE End("error", Truth(e, source))

Ask == asked' = asked + 1

\* A request to a source that may be absent: rows with issues of a topic, or an
\* error, which makes the reader turn to the given stage if it says so.
Query(at, fact, source, topic, next, alternate, maybeEmpty) ==
    /\ stage = at
    /\ Ask
    /\ \/ /\ \E issues \in Answers(topic) : Examine(topic, issues, next)
          /\ origins' = [origins EXCEPT ![fact] = Preferred[fact]]
          /\ UNCHANGED lacking
       \/ /\ \E e \in Errors :
                /\ TurnOrFail(e, source, alternate)
                /\ lacking' = lacking \cup (IF source \in e.absent THEN {Preferred[fact]} ELSE {})
          /\ UNCHANGED origins
       \/ /\ maybeEmpty
          /\ Proceed(alternate)
          /\ lacking' = lacking \cup {Preferred[fact]}
          /\ UNCHANGED <<origins, hms>>
    /\ UNCHANGED <<timestamp, keyed>>

-----------------------------------------------------------------------------
(* Doris.                                                                  *)

\* The password cannot be resolved, the connection fails, or is made.
Connect ==
    /\ stage = "connect"
    /\ Ask
    /\ \/ Proceed("version") /\ UNCHANGED hms
       \/ \E e \in Errors : Fails(e)
       \/ End("error", {"failed"})
    /\ UNCHANGED <<timestamp, keyed, origins, lacking>>

\* The build is diagnostic: it may be absent, but not incomplete.
Version ==
    /\ stage = "version"
    /\ Ask
    /\ \/ Proceed("catalogs") /\ UNCHANGED hms
       \/ End("error", {"contradiction"})
       \/ \E e \in Errors : TurnOrFail(e, "session", "catalogs")
    /\ UNCHANGED <<timestamp, keyed, origins, lacking>>

Catalogs == Query("catalogs", "catalog", "catalog", "catalog", "columns", "show_catalog", TRUE)

\* SHOW CATALOG, then SHOW CATALOGS.  Without them there is nothing left to ask.
ShowCatalog ==
    /\ stage \in {"show_catalog", "show_catalogs"}
    /\ Ask
    /\ \/ /\ stage = "show_catalog"
          /\ Proceed("show_catalogs")
          /\ UNCHANGED <<origins, hms>>
       \/ /\ stage = "show_catalogs"
          /\ \E issues \in Answers("catalog") : Examine("catalog", issues, "columns")
          /\ origins' = [origins EXCEPT !.catalog = Alternate.catalog]
       \/ /\ \E e \in Errors : LeaveOrFail(e, "show-catalog")
          /\ UNCHANGED origins
    /\ UNCHANGED <<timestamp, keyed, lacking>>

Columns == Query("columns", "columns", "columns", "columns", "session", "describe", TRUE)

\* DESCRIBE: it has the columns, or discovery fails.
Describe ==
    /\ stage = "describe"
    /\ Ask
    /\ \/ /\ \E issues \in Answers("columns") : Examine("columns", issues, "session")
          /\ origins' = [origins EXCEPT !.columns = Alternate.columns]
       \/ End("error", {"contradiction"}) /\ UNCHANGED origins    \* no rows
       \/ \E e \in Errors : Fails(e) /\ UNCHANGED origins
    /\ UNCHANGED <<timestamp, keyed, lacking>>

Session == Query("session", "session", "session", "session", "hms", "show_mapping", FALSE)

\* SHOW VARIABLES for the name mapping and, for timestamps, for the timezone.
ShowVariables ==
    /\ stage \in {"show_mapping", "show_timezone"}
    /\ Ask
    /\ \/ /\ stage = "show_mapping" /\ timestamp
          /\ Proceed("show_timezone")
          /\ UNCHANGED <<origins, hms>>
       \/ /\ timestamp => stage = "show_timezone"
          /\ \E issues \in Answers("session") : Examine("session", issues, "hms")
          /\ origins' = [origins EXCEPT !.session = Alternate.session]
       \/ /\ \/ End("doris", {"inapplicable"})       \* no rows
             \/ End("error", {"contradiction"})      \* not one row of that name
             \/ \E e \in Errors : Fails(e)
          /\ UNCHANGED origins
    /\ UNCHANGED <<timestamp, keyed, lacking>>

-----------------------------------------------------------------------------
(* HMS.                                                                    *)

\* open_hms: a URI it refuses, no SDK, no connection, or a client.
OpenHms ==
    /\ stage = "hms"
    /\ Ask
    /\ \/ hms' = "open" /\ Proceed("table")
       \/ End("error", {"failed"})
    /\ UNCHANGED <<timestamp, keyed, origins, lacking>>

\* get_table and validate_table.
Table ==
    /\ stage = "table"
    /\ Ask
    /\ \/ \E issues \in Answers("table") :
             Examine("table", issues, IF keyed THEN "partition_names" ELSE "end")
       \/ End("error", {"failed"})
    /\ UNCHANGED <<timestamp, keyed, origins, lacking>>

\* HiveMetadataClient.partitions: the descriptors, too many names, a listing that
\* changed or makes no sense, or a failed request.
Partitions ==
    /\ stage = "partition_names"
    /\ Ask
    /\ \/ Proceed("partition_values") /\ UNCHANGED hms
       \/ End("doris", {"inapplicable"})
       \/ End("error", {"contradiction"})
       \/ End("error", {"failed"})
    /\ UNCHANGED <<timestamp, keyed, origins, lacking>>

PartitionValues ==
    Query("partition_values", "partitions", "partitions", "typed", "end", "show_partitions", FALSE)

ShowPartitions ==
    /\ stage = "show_partitions"
    /\ Ask
    /\ \/ /\ \E issues \in Answers("named") : Examine("named", issues, "end")
          /\ origins' = [origins EXCEPT !.partitions = Alternate.partitions]
       \/ /\ \E e \in Errors : LeaveOrFail(e, "show-partitions")
          /\ UNCHANGED origins
    /\ UNCHANGED <<timestamp, keyed, lacking>>

Decided == path # "undecided" /\ UNCHANGED vars

Next ==
    \/ Connect \/ Version \/ Catalogs \/ ShowCatalog \/ Columns \/ Describe
    \/ Session \/ ShowVariables
    \/ OpenHms \/ Table \/ Partitions \/ PartitionValues \/ ShowPartitions
    \/ Decided

SafeSpec == Init /\ [][Next]_vars

\* Every request has a timeout (metadata_timeout).
Spec == SafeSpec /\ WF_vars(Next)

-----------------------------------------------------------------------------
(* Correctness.                                                            *)

\* native-read.md: eligible metadata only if nothing speaks against it, Doris only
\* for a limitation, and "Authentication, connection, source access, missing objects
\* or contradictory metadata" are errors; the ladder always ends in one of them.
Selection == INSTANCE SourceSelection
ImplementsSourceSelection == Selection!Spec

\* Tests of _metadata.py: "real errors never try another metadata provider".  After
\* a denial or a failure nobody is asked anything more.
NothingAskedAfterRefusal ==
    [][found \cap {"denied", "failed"} # {} => asked' = asked]_vars

\* native-read.md lists preferred and alternate sources: a fact comes from the
\* alternate only if the preferred source is absent or, where that may be the case,
\* had no rows.  Other errors never change where a fact comes from.
AlternateOnlyWhereLacking ==
    \A f \in Facts : origins[f] = Alternate[f] => Preferred[f] \in lacking

\* HMS has its own authorization: it is contacted only after all Doris says, session
\* included, fits a native read.  Access controllers and masked columns stay with Doris.
DorisIsSatisfiedFirst ==
    [][hms = "none" /\ hms' # "none" =>
          /\ found = {}
          /\ \A f \in {"catalog", "columns", "session"} : origins[f] # "none"]_vars
=============================================================================
