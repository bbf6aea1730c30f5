----------------------- MODULE ExternalMetadataProofs -----------------------
(***************************************************************************)
(* Proofs about ExternalMetadata, for every set of MySQL errors and every  *)
(* bound on the issues of an answer.  The inductive invariant, IInv, says  *)
(* of every stage what brought discovery there: nothing that speaks        *)
(* against the table, a source of every fact established before, and, at   *)
(* the stages of an alternate source, the lack of the preferred one.       *)
(***************************************************************************)
EXTENDS ExternalMetadata, FiniteSetTheorems, TLAPS

\* As long as discovery is undecided nothing has come to light.
Clean == path = "undecided" => found = {}

\* The stages that ask an alternate source, of each fact.
Alternates == [catalog |-> {"show_catalog", "show_catalogs"}, columns |-> {"describe"},
               session |-> {"show_mapping", "show_timezone"}, partitions |-> {"show_partitions"}]

\* An alternate source is asked only where the preferred one is lacking.
AskedWhereLacking == \A f \in Facts : stage \in Alternates[f] => Preferred[f] \in lacking

\* How far the ladder is climbed.
Height == [connect |-> 0, version |-> 1, catalogs |-> 2, show_catalog |-> 3, show_catalogs |-> 4,
           columns |-> 5, describe |-> 6, session |-> 7, show_mapping |-> 8, show_timezone |-> 9,
           hms |-> 10, table |-> 11, partition_names |-> 12, partition_values |-> 13,
           show_partitions |-> 14, end |-> 15]

\* Every stage below the present one had its source; no stage is gone through twice.
Climbed ==
    /\ asked <= Height[stage]
    /\ stage # "end" =>
          /\ Height[stage] >= 5 => origins.catalog # "none"
          /\ Height[stage] >= 7 => origins.columns # "none"
          /\ Height[stage] >= 10 => origins.session # "none"

IInv == TypeOK /\ Clean /\ AskedWhereLacking /\ AlternateOnlyWhereLacking /\ Climbed

-----------------------------------------------------------------------------
(* Answers and errors.                                                     *)

\* The least number principle: induction, without an operator as parameter.
LEMMA LeastNat == ASSUME NEW T \in SUBSET Nat, T # {} PROVE \E n \in T : \A m \in T : n <= m
<1> DEFINE R == {ss \in Nat \X Nat : ss[1] < ss[2]}
<1>1. IsWellFoundedOn(R, Nat)
  BY NatLessThanWellFounded DEF OpToRel
<1> HIDE DEF R
<1>2. PICK x \in T : \A y \in T : ~(<<y, x>> \in R)
  BY <1>1, WFMin
<1>3. \A y \in T : y < x => <<y, x>> \in R
  BY DEF R
<1>4. \A y \in T : ~(y < x) /\ y \in Nat /\ x \in Nat
  BY <1>2, <1>3
<1>5. QED
  BY <1>4

\* The ranks of every topic are numbered.
LEMMA RanksAreNumbered == \A topic \in DOMAIN Ranks : DOMAIN Ranks[topic] \subseteq Nat
<1>1. DOMAIN Ranks = {"catalog", "columns", "session", "table", "typed", "named"}
  BY DEF Ranks
<1>2. DOMAIN Ranks["catalog"] = 1..7 /\ DOMAIN Ranks["table"] = 1..7
  BY DEF Ranks
<1>3. DOMAIN Ranks["columns"] = 1..3 /\ DOMAIN Ranks["session"] = 1..3
  BY DEF Ranks
<1>4. DOMAIN Ranks["typed"] = 1..3 /\ DOMAIN Ranks["named"] = 1..4
  BY DEF Ranks
<1>5. QED
  BY <1>1, <1>2, <1>3, <1>4

\* No issue an answer can have goes unnoticed.
LEMMA NoIssueIsMissed ==
  ASSUME NEW topic \in DOMAIN Ranks, NEW issues \in Answers(topic),
         FirstIssues(topic, issues) = {}
  PROVE  issues = {}
<1> DEFINE hit == {r \in DOMAIN Ranks[topic] : Ranks[topic][r] \cap issues # {}}
<1>1. hit = {}
  <2> SUFFICES ASSUME hit # {} PROVE FALSE
    OBVIOUS
  <2>1. hit \in SUBSET Nat
    BY RanksAreNumbered
  <2> HIDE DEF hit
  <2>2. \E n \in hit : \A m \in hit : n <= m
    BY <2>1, LeastNat
  <2>3. Min(hit) \in hit
    BY <2>2 DEF Min
  <2>4. FirstIssues(topic, issues) = Ranks[topic][Min(hit)] \cap issues
    BY DEF FirstIssues, hit
  <2>5. QED
    BY <2>3, <2>4 DEF hit
<1>2. issues \subseteq UNION {Ranks[topic][r] : r \in DOMAIN Ranks[topic]}
  BY DEF Answers
<1>3. QED
  BY <1>1, <1>2

\* Whatever ends a step is one of its issues.
LEMMA FirstIsAnIssue ==
  ASSUME NEW topic, NEW issues PROVE FirstIssues(topic, issues) \subseteq issues
  BY DEF FirstIssues

\* An error counts as absence exactly if it means that.
LEMMA AbsenceIsRecognized ==
  ASSUME NEW e \in Errors, NEW source \in Features
  PROVE  CapabilityMissing(e, source) <=> ~e.denied /\ source \in e.absent
<1>1. CASE e.denied
  BY <1>1, ExternalMetadataAssumption DEF CapabilityMissing
<1>2. CASE ~e.denied
  BY <1>2, ErrorsNameWhatIsAbsent DEF CapabilityMissing
<1>3. QED
  BY <1>1, <1>2

-----------------------------------------------------------------------------
(* What the pieces of a step do.                                           *)

\* An end that what came to light justifies.
Finishes ==
    /\ stage' = "end"
    /\ path' \in {"native", "doris", "error"}
    /\ found' \in SUBSET {"inapplicable", "contradiction", "denied", "failed"}
    /\ Selection!Justified(path', found')
    /\ hms' = IF hms = "open" THEN "closed" ELSE hms

\* Discovery goes on, with nothing new.
GoesTo(next) == stage' = next /\ UNCHANGED <<path, found, hms>>

\* Rows end discovery for a reason or are without issues.
LEMMA ExamineDoes ==
  ASSUME NEW topic \in DOMAIN Ranks, NEW issues \in Answers(topic), NEW next,
         found = {}, Examine(topic, issues, next)
  PROVE  \/ Finishes
         \/ next # "end" /\ GoesTo(next)
<1> DEFINE findings == {Nature(i) : i \in issues}
           first == FirstIssues(topic, issues)
<1>1. CASE \E i \in first : End(IF NotApplicable(i) THEN "doris" ELSE "error", findings)
  <2>1. PICK i \in first : End(IF NotApplicable(i) THEN "doris" ELSE "error", findings)
    BY <1>1
  <2>2. i \in issues
    BY FirstIsAnIssue
  <2>3. found' = findings /\ findings \subseteq {"inapplicable", "contradiction"}
    BY <2>1 DEF End, Nature
  <2>4. Nature(i) \in findings
    BY <2>2
  <2>5. /\ NotApplicable(i) => Nature(i) = "inapplicable"
        /\ ~NotApplicable(i) => Nature(i) = "contradiction"
    BY DEF NotApplicable, Nature
  <2> HIDE DEF findings
  <2>6. stage' = "end" /\ hms' = IF hms = "open" THEN "closed" ELSE hms
    BY <2>1 DEF End
  <2>7. CASE NotApplicable(i)
    BY <2>1, <2>3, <2>4, <2>5, <2>6, <2>7 DEF Finishes, Selection!Justified, End
  <2>8. CASE ~NotApplicable(i)
    BY <2>1, <2>3, <2>4, <2>5, <2>6, <2>8 DEF Finishes, Selection!Justified, End
  <2>9. QED
    BY <2>7, <2>8
<1>2. CASE first = {}
  <2>1. findings = {}
    BY <1>2, NoIssueIsMissed
  <2> HIDE DEF findings
  <2>2. \/ next = "end" /\ End("native", findings)
        \/ next # "end" /\ stage' = next /\ found' = found \cup findings /\ UNCHANGED <<path, hms>>
    BY <1>2 DEF Examine, findings
  <2>3. CASE next = "end" /\ End("native", findings)
    BY <2>1, <2>3 DEF End, Finishes, Selection!Justified
  <2>4. QED
    BY <2>1, <2>2, <2>3 DEF GoesTo
<1>3. QED
  BY <1>1, <1>2 DEF Examine

\* An error without alternative is an error.
LEMMA FailsDoes ==
  ASSUME NEW e \in Errors, found = {}, Fails(e) PROVE Finishes
<1>1. ~("none" \in e.absent)
  BY ExternalMetadataAssumption DEF Features
<1>2. QED
  BY <1>1 DEF Fails, Truth, End, Finishes, Selection!Justified

\* An error ends discovery, or means that the source it turns away from is absent.
LEMMA TurnOrFailDoes ==
  ASSUME NEW e \in Errors, NEW source \in Features, NEW next,
         found = {}, TurnOrFail(e, source, next)
  PROVE  \/ Finishes
         \/ source \in e.absent /\ GoesTo(next)
<1>1. CASE CapabilityMissing(e, source)
  BY <1>1, AbsenceIsRecognized DEF TurnOrFail, Truth, GoesTo
<1>2. CASE ~CapabilityMissing(e, source)
  BY <1>2, AbsenceIsRecognized DEF TurnOrFail, Truth, End, Finishes, Selection!Justified
<1>3. QED
  BY <1>1, <1>2

\* The last error ends discovery either way.
LEMMA LeaveOrFailDoes ==
  ASSUME NEW e \in Errors, NEW source \in Features, found = {}, LeaveOrFail(e, source)
  PROVE  Finishes
<1>1. CASE CapabilityMissing(e, source)
  BY <1>1, AbsenceIsRecognized DEF LeaveOrFail, Truth, End, Finishes, Selection!Justified
<1>2. CASE ~CapabilityMissing(e, source)
  BY <1>2, AbsenceIsRecognized DEF LeaveOrFail, Truth, End, Finishes, Selection!Justified
<1>3. QED
  BY <1>1, <1>2

\* The ends with one finding.
LEMMA EndDoes ==
  ASSUME found = {}
  PROVE  /\ End("error", {"failed"}) => Finishes
         /\ End("error", {"contradiction"}) => Finishes
         /\ End("doris", {"inapplicable"}) => Finishes
  BY DEF End, Finishes, Selection!Justified

-----------------------------------------------------------------------------
(* What a step does.                                                       *)

\* A source becomes that of a fact as it is asked.
FromItsSource(f) ==
    \/ origins'[f] = origins[f]
    \/ origins'[f] = Preferred[f]
    \/ origins'[f] = Alternate[f] /\ stage \in Alternates[f]

Sourced ==
    /\ origins' \in [Facts -> {"none"} \cup Sources]
    /\ \A f \in Facts : FromItsSource(f)
    /\ lacking \subseteq lacking'
    /\ lacking' \subseteq {Preferred[f] : f \in Facts}

HmsStages == {"table", "partition_names", "partition_values", "show_partitions"}

\* Discovery climbs, with nothing against it and a source for what it leaves behind.
Climbs ==
    /\ stage' \in Stages \ {"end"}
    /\ UNCHANGED <<path, found>>
    /\ Height[stage] < Height[stage']
    /\ hms' = IF stage = "hms" THEN "open" ELSE hms
    /\ stage' \in HmsStages <=> stage \in HmsStages \cup {"hms"}
    /\ \A f \in Facts : stage' \in Alternates[f] => Preferred[f] \in lacking'
    /\ Height[stage'] >= 5 => origins'.catalog # "none"
    /\ Height[stage'] >= 7 => origins'.columns # "none"
    /\ Height[stage'] >= 10 => origins'.session # "none"

Moves ==
    /\ path = "undecided"
    /\ asked' = asked + 1
    /\ UNCHANGED <<timestamp, keyed>>
    /\ Sourced
    /\ Finishes \/ Climbs

\* What the lemmas about a step start from.
Ready == IInv /\ path = "undecided"

\* The sources, by name.
LEMMA SourceNames ==
  /\ Facts = {"catalog", "columns", "session", "partitions"}
  /\ \A f \in Facts : Preferred[f] \in Sources \ {"none"} /\ Alternate[f] \in Sources \ {"none"}
<1>1. Facts = {"catalog", "columns", "session", "partitions"}
  BY DEF Facts, Preferred
<1>2. /\ Preferred["catalog"] = "catalogs()" /\ Preferred["session"] = "session-select"
      /\ Preferred["columns"] = "information_schema.columns"
      /\ Preferred["partitions"] = "$partitions"
  BY DEF Preferred
<1>3. /\ Alternate["catalog"] = "show-catalog" /\ Alternate["session"] = "show-variables"
      /\ Alternate["columns"] = "describe" /\ Alternate["partitions"] = "show-partitions"
  BY DEF Alternate
<1>4. \A f \in Facts : Preferred[f] # "none" /\ Alternate[f] # "none"
  BY <1>1, <1>2, <1>3
<1>5. QED
  BY <1>1, <1>4 DEF Sources

\* A fact gets its source, or none does.
LEMMA SourcesMove ==
  ASSUME Ready, NEW f \in Facts, NEW v \in {Preferred[f], Alternate[f]},
         v = Alternate[f] /\ v # Preferred[f] => stage \in Alternates[f],
         NEW w \in SUBSET {Preferred[g] : g \in Facts}, lacking' = lacking \cup w,
         origins' = origins \/ origins' = [origins EXCEPT ![f] = v]
  PROVE  /\ Sourced
         /\ \A g \in Facts : origins[g] # "none" => origins'[g] # "none"
         /\ origins' = [origins EXCEPT ![f] = v] => origins'[f] # "none"
<1>1. origins \in [Facts -> {"none"} \cup Sources] /\ lacking \subseteq {Preferred[g] : g \in Facts}
  BY DEF Ready, IInv, TypeOK
<1>2. v \in Sources \ {"none"}
  BY SourceNames
<1>3. origins' \in [Facts -> {"none"} \cup Sources] /\ \A g \in Facts : FromItsSource(g)
  BY <1>1, <1>2 DEF FromItsSource
<1>4. QED
  BY <1>1, <1>2, <1>3 DEF Sourced

\* A query, whether or not its answer may be empty.
Asks(at, fact, source, topic, next, alternate) ==
    \/ Query(at, fact, source, topic, next, alternate, TRUE)
    \/ Query(at, fact, source, topic, next, alternate, FALSE)

\* A query ends discovery for a reason, has its fact, or goes to the alternate of what
\* is lacking.
LEMMA QueryDoes ==
  ASSUME Ready, NEW at, NEW fact \in Facts, NEW source \in Features,
         NEW topic \in DOMAIN Ranks, NEW next, NEW alternate,
         Asks(at, fact, source, topic, next, alternate)
  PROVE  /\ stage = at /\ asked' = asked + 1 /\ UNCHANGED <<timestamp, keyed>>
         /\ Sourced
         /\ \A g \in Facts : origins[g] # "none" => origins'[g] # "none"
         /\ \/ Finishes
            \/ next # "end" /\ GoesTo(next) /\ origins'[fact] # "none"
            \/ GoesTo(alternate) /\ Preferred[fact] \in lacking'
<1>1. found = {}
  BY DEF Ready, IInv, Clean
<1>2. stage = at /\ asked' = asked + 1 /\ UNCHANGED <<timestamp, keyed>>
  BY DEF Asks, Query, Ask
<1>3. CASE /\ \E issues \in Answers(topic) : Examine(topic, issues, next)
           /\ origins' = [origins EXCEPT ![fact] = Preferred[fact]]
           /\ UNCHANGED lacking
  <2>1. Finishes \/ (next # "end" /\ GoesTo(next))
    BY <1>1, <1>3, ExamineDoes
  <2>2. lacking' = lacking \cup {}
    BY <1>3
  <2>3. /\ Sourced
        /\ \A g \in Facts : origins[g] # "none" => origins'[g] # "none"
        /\ origins'[fact] # "none"
    BY <1>3, <2>2, SourcesMove
  <2>4. QED
    BY <1>2, <2>1, <2>3
<1>4. CASE /\ \E e \in Errors :
                 /\ TurnOrFail(e, source, alternate)
                 /\ lacking' = lacking \cup
                                  (IF source \in e.absent THEN {Preferred[fact]} ELSE {})
           /\ UNCHANGED origins
  <2>1. PICK e \in Errors :
                 /\ TurnOrFail(e, source, alternate)
                 /\ lacking' = lacking \cup
                                  (IF source \in e.absent THEN {Preferred[fact]} ELSE {})
    BY <1>4
  <2>2. Finishes \/ (source \in e.absent /\ GoesTo(alternate))
    BY <1>1, <2>1, TurnOrFailDoes
  <2> DEFINE w == IF source \in e.absent THEN {Preferred[fact]} ELSE {}
  <2>3. w \in SUBSET {Preferred[g] : g \in Facts} /\ lacking' = lacking \cup w
    BY <2>1
  <2> HIDE DEF w
  <2>4. /\ Sourced
        /\ \A g \in Facts : origins[g] # "none" => origins'[g] # "none"
    BY <1>4, <2>3, SourcesMove
  <2>5. source \in e.absent => Preferred[fact] \in lacking'
    BY <2>1
  <2>6. QED
    BY <1>2, <2>2, <2>4, <2>5
<1>5. CASE /\ Proceed(alternate)
           /\ lacking' = lacking \cup {Preferred[fact]}
           /\ UNCHANGED <<origins, hms>>
  <2>1. GoesTo(alternate)
    BY <1>5 DEF Proceed, GoesTo
  <2>2. {Preferred[fact]} \in SUBSET {Preferred[g] : g \in Facts}
    OBVIOUS
  <2>3. /\ Sourced
        /\ \A g \in Facts : origins[g] # "none" => origins'[g] # "none"
    BY <1>5, <2>2, SourcesMove
  <2>4. QED
    BY <1>2, <1>5, <2>1, <2>3
<1>6. QED
  BY <1>3, <1>4, <1>5 DEF Asks, Query

\* A step that asks an alternate source has it for its fact, or none.
LEMMA AlternateDoes ==
  ASSUME Ready, NEW f \in Facts, stage \in Alternates[f], UNCHANGED lacking,
         origins' = origins \/ origins' = [origins EXCEPT ![f] = Alternate[f]]
  PROVE  /\ Sourced
         /\ \A g \in Facts : origins[g] # "none" => origins'[g] # "none"
         /\ origins' = [origins EXCEPT ![f] = Alternate[f]] => origins'[f] # "none"
<1>1. lacking' = lacking \cup {}
  OBVIOUS
<1>2. QED
  BY <1>1, SourcesMove

\* So has a step that leaves the sources alone.
LEMMA SourcesKept ==
  ASSUME Ready, UNCHANGED <<origins, lacking>> PROVE Sourced
<1>1. lacking' = lacking \cup {} /\ "catalog" \in Facts
  BY SourceNames
<1>2. QED
  BY <1>1, SourcesMove

\* What every stage is reached with.
LEMMA Reached ==
  ASSUME Ready
  PROVE  /\ stage \in Stages \ {"end"} /\ found = {} /\ asked \in Int
         /\ \A f \in Facts : stage \in Alternates[f] => Preferred[f] \in lacking
         /\ Height[stage] >= 5 => origins["catalog"] # "none"
         /\ Height[stage] >= 7 => origins["columns"] # "none"
         /\ Height[stage] >= 10 => origins["session"] # "none"
  BY DEF Ready, IInv, TypeOK, Clean, AskedWhereLacking, Climbed

\* There are sixteen stages: Height numbers them.
LEMMA SixteenStages == Cardinality(Stages) = 16
<1> DEFINE up == [n \in 1..16 |-> CHOOSE s \in Stages : Height[s] = n - 1]
<1>1. \A s \in Stages : Height[s] \in 0..15
  BY DEF Stages, Height
<1>2. \A s, t \in Stages : Height[s] = Height[t] => s = t
  BY DEF Stages, Height
<1>3. \A n \in 1..16 : \E s \in Stages : Height[s] = n - 1
  BY DEF Stages, Height
<1>4. \A n \in 1..16 : up[n] \in Stages /\ Height[up[n]] = n - 1
  BY <1>3
<1>5. up \in [1..16 -> Stages]
  BY <1>4
<1> HIDE DEF up
<1>6. \A m, n \in 1..16 : up[m] = up[n] => m = n
  BY <1>4
<1>7. \A s \in Stages : \E n \in 1..16 : up[n] = s
  <2> SUFFICES ASSUME NEW s \in Stages PROVE \E n \in 1..16 : up[n] = s
    OBVIOUS
  <2>1. \A h \in 0..15 : \E n \in 1..16 : n - 1 = h
    OBVIOUS
  <2>2. PICK n \in 1..16 : n - 1 = Height[s]
    BY <1>1, <2>1
  <2>3. up[n] \in Stages /\ Height[up[n]] = Height[s]
    BY <1>4, <2>2
  <2>4. QED
    BY <1>2, <2>3
<1>8. ExistsBijection(1..16, Stages)
  BY <1>5, <1>6, <1>7 DEF ExistsBijection, Bijection, Injection, Surjection, IsInjective
<1>9. QED
  BY <1>8, FS_CountingElements

\* The order of the stages, and the sources of each.
LEMMA StageNames ==
  /\ Height["connect"] = 0 /\ Height["version"] = 1 /\ Height["catalogs"] = 2
  /\ Height["show_catalog"] = 3 /\ Height["show_catalogs"] = 4 /\ Height["columns"] = 5
  /\ Height["describe"] = 6 /\ Height["session"] = 7 /\ Height["show_mapping"] = 8
  /\ Height["show_timezone"] = 9 /\ Height["hms"] = 10 /\ Height["table"] = 11
  /\ Height["partition_names"] = 12 /\ Height["partition_values"] = 13
  /\ Height["show_partitions"] = 14 /\ Height["end"] = 15
  /\ Alternates["catalog"] = {"show_catalog", "show_catalogs"}
  /\ Alternates["columns"] = {"describe"}
  /\ Alternates["session"] = {"show_mapping", "show_timezone"}
  /\ Alternates["partitions"] = {"show_partitions"}
  BY DEF Height, Alternates

\* Discovery climbs if it goes to a higher stage and has what that stage is reached with.
LEMMA GoesUp ==
  ASSUME Ready, NEW next, UNCHANGED <<path, found, hms>>, stage' = next, stage # "hms",
         next \in Stages \ {"end"}, Height[stage] < Height[next],
         next \in HmsStages <=> stage \in HmsStages,
         \A f \in Facts : next \in Alternates[f] => Preferred[f] \in lacking',
         \A f \in Facts : origins[f] # "none" => origins'[f] # "none",
         Height[next] >= 5 /\ Height[stage] < 5 => origins'["catalog"] # "none",
         Height[next] >= 7 /\ Height[stage] < 7 => origins'["columns"] # "none",
         Height[next] >= 10 /\ Height[stage] < 10 => origins'["session"] # "none"
  PROVE  Climbs
<1>1. \A s \in Stages : Height[s] \in Int
  BY DEF Stages, Height
<1>2. Height[stage] \in Int /\ Height[next] \in Int
  BY <1>1, Reached
<1>3. Height[next] >= 5 => origins'["catalog"] # "none"
  BY <1>2, Reached, SourceNames
<1>4. Height[next] >= 7 => origins'["columns"] # "none"
  BY <1>2, Reached, SourceNames
<1>5. Height[next] >= 10 => origins'["session"] # "none"
  BY <1>2, Reached, SourceNames
<1>6. QED
  BY <1>3, <1>4, <1>5 DEF Climbs

\* What the requests without sources do.
LEMMA PlainMoves ==
  ASSUME Ready, Connect \/ Version \/ OpenHms \/ Table \/ Partitions
  PROVE  Moves
<1>1. found = {} /\ path = "undecided"
  BY Reached DEF Ready
<1>2. /\ asked' = asked + 1
      /\ UNCHANGED <<timestamp, keyed, origins, lacking>>
  BY DEF Connect, Version, OpenHms, Table, Partitions, Ask
<1>3. Sourced
  BY <1>2, SourcesKept
<1>4. CASE Connect
  <2>1. CASE Proceed("version") /\ UNCHANGED hms
    BY <1>1, <1>2, <1>3, <1>4, <2>1, GoesUp, StageNames, SourceNames
    DEF Connect, Proceed, Stages, HmsStages, Moves
  <2>2. QED
    BY <1>1, <1>4, <2>1, FailsDoes, EndDoes, <1>2, <1>3 DEF Connect, Moves
<1>5. CASE Version
  <2>1. CASE GoesTo("catalogs")
    BY <1>1, <1>2, <1>3, <1>5, <2>1, GoesUp, StageNames, SourceNames
    DEF Version, GoesTo, Stages, HmsStages, Moves
  <2>2. "session" \in Features
    BY DEF Features
  <2>3. QED
    BY <1>1, <1>2, <1>3, <1>5, <2>1, <2>2, TurnOrFailDoes, EndDoes
    DEF Version, Moves, Proceed, GoesTo
<1>6. CASE OpenHms
  <2>1. CASE hms' = "open" /\ Proceed("table")
    <3>1. stage = "hms" /\ stage' = "table" /\ UNCHANGED <<path, found>>
      BY <1>6, <2>1 DEF OpenHms, Proceed
    <3>2. \A f \in Facts : "table" \notin Alternates[f]
      BY StageNames, SourceNames
    <3>3. /\ origins'["catalog"] # "none" /\ origins'["columns"] # "none"
          /\ origins'["session"] # "none"
      BY <1>2, <3>1, Reached, StageNames
    <3>4. Climbs
      BY <2>1, <3>1, <3>2, <3>3, StageNames DEF Climbs, Stages, HmsStages
    <3>5. QED
      BY <1>1, <1>2, <1>3, <3>4 DEF Moves
  <2>2. QED
    BY <1>1, <1>2, <1>3, <1>6, <2>1, EndDoes DEF OpenHms, Moves
<1>7. CASE Table
  <2>1. CASE GoesTo("partition_names")
    BY <1>1, <1>2, <1>3, <1>7, <2>1, GoesUp, StageNames, SourceNames
    DEF Table, GoesTo, Stages, HmsStages, Moves
  <2>2. "table" \in DOMAIN Ranks
    BY DEF Ranks
  <2>3. QED
    BY <1>1, <1>2, <1>3, <1>7, <2>1, <2>2, ExamineDoes, EndDoes DEF Table, Moves
<1>8. CASE Partitions
  <2>1. CASE Proceed("partition_values") /\ UNCHANGED hms
    BY <1>1, <1>2, <1>3, <1>8, <2>1, GoesUp, StageNames, SourceNames
    DEF Partitions, Proceed, Stages, HmsStages, Moves
  <2>2. QED
    BY <1>1, <1>2, <1>3, <1>8, <2>1, EndDoes DEF Partitions, Moves
<1>9. QED
  BY <1>4, <1>5, <1>6, <1>7, <1>8

\* What the requests for preferred sources do.
LEMMA QueryMoves ==
  ASSUME Ready, Catalogs \/ Columns \/ Session \/ PartitionValues
  PROVE  Moves
<1>1. /\ {"catalog", "columns", "session", "partitions"} \subseteq Features
      /\ {"catalog", "columns", "session", "typed"} \subseteq DOMAIN Ranks
  BY DEF Features, Ranks
<1>2. CASE Catalogs
  <2>1. /\ stage = "catalogs" /\ asked' = asked + 1 /\ UNCHANGED <<timestamp, keyed>>
        /\ Sourced
        /\ \A g \in Facts : origins[g] # "none" => origins'[g] # "none"
        /\ \/ Finishes
           \/ GoesTo("columns") /\ origins'["catalog"] # "none"
           \/ GoesTo("show_catalog") /\ Preferred["catalog"] \in lacking'
    <3>1. Asks("catalogs", "catalog", "catalog", "catalog", "columns", "show_catalog")
      BY <1>2 DEF Catalogs, Asks
    <3>2. "catalog" \in Facts /\ "catalog" \in Features /\ "catalog" \in DOMAIN Ranks
      BY <1>1, SourceNames
    <3>3. QED
      BY <3>1, <3>2, QueryDoes
  <2>2. CASE GoesTo("columns") /\ origins'["catalog"] # "none"
    BY <2>1, <2>2, GoesUp, StageNames, SourceNames DEF GoesTo, Stages, HmsStages, Moves, Ready
  <2>3. CASE GoesTo("show_catalog") /\ Preferred["catalog"] \in lacking'
    BY <2>1, <2>3, GoesUp, StageNames, SourceNames DEF GoesTo, Stages, HmsStages, Moves, Ready
  <2>4. QED
    BY <2>1, <2>2, <2>3 DEF Moves, Ready
<1>3. CASE Columns
  <2>1. /\ stage = "columns" /\ asked' = asked + 1 /\ UNCHANGED <<timestamp, keyed>>
        /\ Sourced
        /\ \A g \in Facts : origins[g] # "none" => origins'[g] # "none"
        /\ \/ Finishes
           \/ GoesTo("session") /\ origins'["columns"] # "none"
           \/ GoesTo("describe") /\ Preferred["columns"] \in lacking'
    <3>1. Asks("columns", "columns", "columns", "columns", "session", "describe")
      BY <1>3 DEF Columns, Asks
    <3>2. "columns" \in Facts /\ "columns" \in Features /\ "columns" \in DOMAIN Ranks
      BY <1>1, SourceNames
    <3>3. QED
      BY <3>1, <3>2, QueryDoes
  <2>2. CASE GoesTo("session") /\ origins'["columns"] # "none"
    BY <2>1, <2>2, GoesUp, StageNames, SourceNames DEF GoesTo, Stages, HmsStages, Moves, Ready
  <2>3. CASE GoesTo("describe") /\ Preferred["columns"] \in lacking'
    BY <2>1, <2>3, GoesUp, StageNames, SourceNames DEF GoesTo, Stages, HmsStages, Moves, Ready
  <2>4. QED
    BY <2>1, <2>2, <2>3 DEF Moves, Ready
<1>4. CASE Session
  <2>1. /\ stage = "session" /\ asked' = asked + 1 /\ UNCHANGED <<timestamp, keyed>>
        /\ Sourced
        /\ \A g \in Facts : origins[g] # "none" => origins'[g] # "none"
        /\ \/ Finishes
           \/ GoesTo("hms") /\ origins'["session"] # "none"
           \/ GoesTo("show_mapping") /\ Preferred["session"] \in lacking'
    <3>1. Asks("session", "session", "session", "session", "hms", "show_mapping")
      BY <1>4 DEF Session, Asks
    <3>2. "session" \in Facts /\ "session" \in Features /\ "session" \in DOMAIN Ranks
      BY <1>1, SourceNames
    <3>3. QED
      BY <3>1, <3>2, QueryDoes
  <2>2. CASE GoesTo("hms") /\ origins'["session"] # "none"
    BY <2>1, <2>2, GoesUp, StageNames, SourceNames DEF GoesTo, Stages, HmsStages, Moves, Ready
  <2>3. CASE GoesTo("show_mapping") /\ Preferred["session"] \in lacking'
    BY <2>1, <2>3, GoesUp, StageNames, SourceNames DEF GoesTo, Stages, HmsStages, Moves, Ready
  <2>4. QED
    BY <2>1, <2>2, <2>3 DEF Moves, Ready
<1>5. CASE PartitionValues
  <2>1. /\ stage = "partition_values" /\ asked' = asked + 1 /\ UNCHANGED <<timestamp, keyed>>
        /\ Sourced
        /\ \A g \in Facts : origins[g] # "none" => origins'[g] # "none"
        /\ \/ Finishes
           \/ GoesTo("show_partitions") /\ Preferred["partitions"] \in lacking'
    <3>1. Asks("partition_values", "partitions", "partitions", "typed", "end", "show_partitions")
      BY <1>5 DEF PartitionValues, Asks
    <3>2. "partitions" \in Facts /\ "partitions" \in Features /\ "typed" \in DOMAIN Ranks
      BY <1>1, SourceNames
    <3>3. QED
      BY <3>1, <3>2, QueryDoes
  <2>2. CASE GoesTo("show_partitions") /\ Preferred["partitions"] \in lacking'
    BY <2>1, <2>2, GoesUp, StageNames, SourceNames DEF GoesTo, Stages, HmsStages, Moves, Ready
  <2>3. QED
    BY <2>1, <2>2 DEF Moves, Ready
<1>6. QED
  BY <1>2, <1>3, <1>4, <1>5

\* What the requests for alternate sources do.
LEMMA AlternateMoves ==
  ASSUME Ready, ShowCatalog \/ Describe \/ ShowVariables \/ ShowPartitions
  PROVE  Moves
<1>1. /\ {"show-catalog", "show-partitions"} \subseteq Features
      /\ {"catalog", "columns", "session", "named"} \subseteq DOMAIN Ranks
  BY DEF Features, Ranks
<1>2. found = {} /\ path = "undecided"
  BY Reached DEF Ready
<1>3. asked' = asked + 1 /\ UNCHANGED <<timestamp, keyed, lacking>>
  BY DEF ShowCatalog, Describe, ShowVariables, ShowPartitions, Ask
<1>4. CASE ShowCatalog
  <2>1. stage \in Alternates["catalog"] /\ "catalog" \in Facts /\ stage # "hms"
    BY <1>4, StageNames, SourceNames DEF ShowCatalog
  <2>2. origins' = origins \/ origins' = [origins EXCEPT !["catalog"] = Alternate["catalog"]]
    BY <1>4 DEF ShowCatalog
  <2>3. /\ Sourced
        /\ \A g \in Facts : origins[g] # "none" => origins'[g] # "none"
        /\ origins' = [origins EXCEPT !["catalog"] = Alternate["catalog"]] =>
              origins'["catalog"] # "none"
    BY <1>3, <2>1, <2>2, AlternateDoes
  <2>4. \/ Finishes
        \/ stage = "show_catalog" /\ GoesTo("show_catalogs")
        \/ /\ stage = "show_catalogs" /\ GoesTo("columns")
           /\ origins' = [origins EXCEPT !["catalog"] = Alternate["catalog"]]
    BY <1>1, <1>2, <1>4, ExamineDoes, LeaveOrFailDoes DEF ShowCatalog, Proceed, GoesTo
  <2>5. CASE stage = "show_catalog" /\ GoesTo("show_catalogs")
    <3>1. \A f \in Facts : "show_catalogs" \in Alternates[f] => Preferred[f] \in lacking'
      BY <1>3, <2>5, Reached, StageNames, SourceNames
    <3>2. Climbs
      BY <2>1, <2>3, <2>5, <3>1, GoesUp, StageNames DEF GoesTo, Stages, HmsStages
    <3>3. QED
      BY <1>2, <1>3, <2>3, <3>2 DEF Moves
  <2>6. CASE /\ stage = "show_catalogs" /\ GoesTo("columns")
             /\ origins' = [origins EXCEPT !["catalog"] = Alternate["catalog"]]
    <3>1. Climbs
      BY <2>1, <2>3, <2>6, GoesUp, StageNames, SourceNames DEF GoesTo, Stages, HmsStages
    <3>2. QED
      BY <1>2, <1>3, <2>3, <3>1 DEF Moves
  <2>7. QED
    BY <1>2, <1>3, <2>3, <2>4, <2>5, <2>6 DEF Moves
<1>5. CASE Describe
  <2>1. stage \in Alternates["columns"] /\ "columns" \in Facts /\ stage # "hms"
    BY <1>5, StageNames, SourceNames DEF Describe
  <2>2. origins' = origins \/ origins' = [origins EXCEPT !["columns"] = Alternate["columns"]]
    BY <1>5 DEF Describe
  <2>3. /\ Sourced
        /\ \A g \in Facts : origins[g] # "none" => origins'[g] # "none"
        /\ origins' = [origins EXCEPT !["columns"] = Alternate["columns"]] =>
              origins'["columns"] # "none"
    BY <1>3, <2>1, <2>2, AlternateDoes
  <2>4. \/ Finishes
        \/ /\ stage = "describe" /\ GoesTo("session")
           /\ origins' = [origins EXCEPT !["columns"] = Alternate["columns"]]
    BY <1>1, <1>2, <1>5, ExamineDoes, FailsDoes, EndDoes DEF Describe
  <2>5. CASE /\ stage = "describe" /\ GoesTo("session")
             /\ origins' = [origins EXCEPT !["columns"] = Alternate["columns"]]
    <3>1. Climbs
      BY <2>1, <2>3, <2>5, GoesUp, StageNames, SourceNames DEF GoesTo, Stages, HmsStages
    <3>2. QED
      BY <1>2, <1>3, <2>3, <3>1 DEF Moves
  <2>6. QED
    BY <1>2, <1>3, <2>3, <2>4, <2>5 DEF Moves
<1>6. CASE ShowVariables
  <2>1. stage \in Alternates["session"] /\ "session" \in Facts /\ stage # "hms"
    BY <1>6, StageNames, SourceNames DEF ShowVariables
  <2>2. origins' = origins \/ origins' = [origins EXCEPT !["session"] = Alternate["session"]]
    BY <1>6 DEF ShowVariables
  <2>3. /\ Sourced
        /\ \A g \in Facts : origins[g] # "none" => origins'[g] # "none"
        /\ origins' = [origins EXCEPT !["session"] = Alternate["session"]] =>
              origins'["session"] # "none"
    BY <1>3, <2>1, <2>2, AlternateDoes
  <2>4. \/ Finishes
        \/ stage = "show_mapping" /\ GoesTo("show_timezone")
        \/ /\ stage \in {"show_mapping", "show_timezone"} /\ GoesTo("hms")
           /\ origins' = [origins EXCEPT !["session"] = Alternate["session"]]
    BY <1>1, <1>2, <1>6, ExamineDoes, FailsDoes, EndDoes DEF ShowVariables, Proceed, GoesTo
  <2>5. CASE stage = "show_mapping" /\ GoesTo("show_timezone")
    <3>1. \A f \in Facts : "show_timezone" \in Alternates[f] => Preferred[f] \in lacking'
      BY <1>3, <2>5, Reached, StageNames, SourceNames
    <3>2. Climbs
      BY <2>1, <2>3, <2>5, <3>1, GoesUp, StageNames DEF GoesTo, Stages, HmsStages
    <3>3. QED
      BY <1>2, <1>3, <2>3, <3>2 DEF Moves
  <2>6. CASE /\ stage \in {"show_mapping", "show_timezone"} /\ GoesTo("hms")
             /\ origins' = [origins EXCEPT !["session"] = Alternate["session"]]
    <3>1. Climbs
      BY <2>1, <2>3, <2>6, GoesUp, StageNames, SourceNames DEF GoesTo, Stages, HmsStages
    <3>2. QED
      BY <1>2, <1>3, <2>3, <3>1 DEF Moves
  <2>7. QED
    BY <1>2, <1>3, <2>3, <2>4, <2>5, <2>6 DEF Moves
<1>7. CASE ShowPartitions
  <2>1. stage \in Alternates["partitions"] /\ "partitions" \in Facts
    BY <1>7, StageNames, SourceNames DEF ShowPartitions
  <2>2. \/ origins' = origins
        \/ origins' = [origins EXCEPT !["partitions"] = Alternate["partitions"]]
    BY <1>7 DEF ShowPartitions
  <2>3. Sourced
    BY <1>3, <2>1, <2>2, AlternateDoes
  <2>4. Finishes
    BY <1>1, <1>2, <1>7, ExamineDoes, LeaveOrFailDoes DEF ShowPartitions
  <2>5. QED
    BY <1>2, <1>3, <2>3, <2>4 DEF Moves
<1>8. QED
  BY <1>4, <1>5, <1>6, <1>7

\* Every step asks one thing more and ends or climbs, but for the rest at the end.
LEMMA StepMoves ==
  ASSUME IInv, [Next]_vars PROVE UNCHANGED vars \/ Moves
<1>1. CASE Next /\ ~UNCHANGED vars
  <2>1. stage # "end"
    BY <1>1 DEF Next, Connect, Version, Catalogs, ShowCatalog, Columns, Describe, Session,
                ShowVariables, OpenHms, Table, Partitions, PartitionValues, ShowPartitions,
                Query, Decided
  <2>2. Ready
    BY <2>1 DEF Ready, IInv, TypeOK
  <2>3. QED
    BY <1>1, <2>2, PlainMoves, QueryMoves, AlternateMoves DEF Next, Decided
<1>2. QED
  BY <1>1

-----------------------------------------------------------------------------
(* The invariant.                                                          *)

\* Discovery begins with nothing asked and nothing known.
LEMMA InitIInv == Init => IInv
<1> SUFFICES ASSUME Init PROVE IInv
  OBVIOUS
<1>1. TypeOK
  BY SixteenStages DEF Init, TypeOK, Stages
<1>2. Clean /\ AlternateOnlyWhereLacking
  BY SourceNames DEF Init, Clean, AlternateOnlyWhereLacking
<1>3. AskedWhereLacking
  BY StageNames, SourceNames DEF Init, AskedWhereLacking
<1>4. Climbed
  BY StageNames DEF Init, Climbed
<1>5. QED
  BY <1>1, <1>2, <1>3, <1>4 DEF IInv

\* Every step keeps the invariant.
LEMMA NextIInv == IInv /\ [Next]_vars => IInv'
<1> SUFFICES ASSUME IInv, [Next]_vars PROVE IInv'
  OBVIOUS
<1>1. CASE UNCHANGED vars
  BY <1>1 DEF vars, IInv, TypeOK, Clean, AskedWhereLacking, AlternateOnlyWhereLacking, Climbed
<1>2. CASE Moves
  <2>1. TypeOK /\ path = "undecided" /\ stage \in Stages \ {"end"} /\ asked <= Height[stage]
    BY <1>2 DEF Moves, IInv, TypeOK, Climbed
  <2>2. \A s \in Stages : Height[s] \in 0..15
    BY DEF Stages, Height
  <2>3. Height[stage] < 15
    BY <2>1 DEF Stages, Height
  <2>4. stage' \in Stages /\ asked' <= Height[stage']
    <3>1. CASE Finishes
      BY <1>2, <2>1, <2>3, <3>1, StageNames, SixteenStages
      DEF Finishes, Moves, Stages, TypeOK
    <3>2. CASE Climbs
      <4>1. /\ stage' \in Stages /\ Height[stage'] \in 0..15 /\ Height[stage] \in 0..15
            /\ asked \in Int /\ asked' = asked + 1 /\ Height[stage] < Height[stage']
        BY <1>2, <2>1, <2>2, <3>2, SixteenStages DEF Climbs, Moves, TypeOK
      <4>2. QED
        BY <2>1, <4>1
    <3>3. QED
      BY <1>2, <3>1, <3>2 DEF Moves
  <2>5. TypeOK'
    <3>1. asked' \in 0 .. Cardinality(Stages) - 1
      <4>1. asked \in Int /\ 0 <= asked /\ asked' = asked + 1 /\ Height[stage'] \in 0..15
        BY <1>2, <2>1, <2>2, <2>4, SixteenStages DEF Moves, TypeOK
      <4>2. QED
        BY <2>4, <4>1, SixteenStages
    <3>2. /\ origins' \in [Facts -> {"none"} \cup Sources]
          /\ \A f \in Facts : origins'[f] \in {"none", Preferred[f], Alternate[f]}
          /\ lacking' \subseteq {Preferred[f] : f \in Facts}
      BY <1>2, <2>1 DEF Moves, Sourced, FromItsSource, TypeOK
    <3>3. timestamp' \in BOOLEAN /\ keyed' \in BOOLEAN
      BY <1>2, <2>1 DEF Moves, TypeOK
    <3>4. CASE Finishes
      BY <2>1, <2>4, <3>1, <3>2, <3>3, <3>4 DEF Finishes, TypeOK
    <3>5. CASE Climbs
      BY <2>1, <2>4, <3>1, <3>2, <3>3, <3>5 DEF Climbs, HmsStages, TypeOK
    <3>6. QED
      BY <1>2, <3>4, <3>5 DEF Moves
  <2>6. Clean'
    BY <1>2 DEF Moves, Finishes, Climbs, Clean, IInv
  <2>7. AskedWhereLacking'
    <3>1. \A f \in Facts : "end" \notin Alternates[f]
      BY StageNames, SourceNames
    <3>2. QED
      BY <1>2, <3>1 DEF Moves, Finishes, Climbs, AskedWhereLacking
  <2>8. AlternateOnlyWhereLacking'
    <3> SUFFICES ASSUME NEW f \in Facts, origins'[f] = Alternate[f] PROVE Preferred[f] \in lacking'
      BY DEF AlternateOnlyWhereLacking
    <3>1. lacking \subseteq lacking' /\ FromItsSource(f)
      BY <1>2 DEF Moves, Sourced
    <3>2. Preferred[f] # Alternate[f]
      BY SourceNames DEF Preferred, Alternate
    <3>3. QED
      BY <3>1, <3>2 DEF FromItsSource, IInv, AskedWhereLacking, AlternateOnlyWhereLacking
  <2>9. Climbed'
    BY <1>2, <2>4 DEF Moves, Finishes, Climbs, Climbed
  <2>10. QED
    BY <2>5, <2>6, <2>7, <2>8, <2>9 DEF IInv
<1>3. QED
  BY <1>1, <1>2, StepMoves

\* IInv holds in every reachable state.
THEOREM MetadataInvariant == SafeSpec => []IInv
  BY InitIInv, NextIInv, PTL DEF SafeSpec

-----------------------------------------------------------------------------
(* What follows.                                                           *)

\* discover_external sends each request at most once (asked is bounded by the stages),
\* holds an HMS transport exactly at the HMS requests, and is undecided until it ends.
THEOREM MetadataTypeOK == SafeSpec => []TypeOK
  BY MetadataInvariant, PTL DEF IInv

\* The first_source ladders of _metadata.py: a fact comes from its alternate source only
\* if the preferred one is absent or, where that may be the case, had no rows.
THEOREM AlternateOnlyWhereLackingSafe == SafeSpec => []AlternateOnlyWhereLacking
  BY MetadataInvariant, PTL DEF IInv

\* Real errors never try another metadata provider: after a denial or a failure nobody
\* is asked anything more.
THEOREM NothingAskedAfterRefusalSafe == SafeSpec => NothingAskedAfterRefusal
<1>1. IInv /\ [Next]_vars => [found \cap {"denied", "failed"} # {} => asked' = asked]_vars
  BY StepMoves DEF Moves, IInv, Clean, vars
<1>2. QED
  BY <1>1, MetadataInvariant, PTL DEF SafeSpec, NothingAskedAfterRefusal

\* HMS is contacted only after all Doris says, session included, fits a native read.
THEOREM DorisIsSatisfiedFirstSafe == SafeSpec => DorisIsSatisfiedFirst
<1> DEFINE First ==
      hms = "none" /\ hms' # "none" =>
          /\ found = {}
          /\ \A f \in {"catalog", "columns", "session"} : origins[f] # "none"
<1>1. IInv /\ [Next]_vars => [First]_vars
  <2> SUFFICES ASSUME IInv, Moves, hms = "none", hms' # "none"
               PROVE  /\ found = {}
                      /\ \A f \in {"catalog", "columns", "session"} : origins[f] # "none"
    BY StepMoves DEF vars
  <2>1. Ready
    BY DEF Moves, Ready
  <2>2. stage = "hms"
    BY DEF Moves, Finishes, Climbs
  <2>3. QED
    BY <2>1, <2>2, Reached, StageNames
<1>2. QED
  BY <1>1, MetadataInvariant, PTL DEF SafeSpec, DorisIsSatisfiedFirst

\* discover_external implements SourceSelection, fairness aside: eligible metadata only
\* if nothing speaks against it, Doris only for a limitation and nothing worse, and an
\* error otherwise.
THEOREM ImplementsSelectionSafely == SafeSpec => Selection!SafeSpec
<1>1. Init => Selection!Init
  BY DEF Init, Selection!Init
<1>2. IInv /\ [Next]_vars => [Selection!Next]_(Selection!vars)
  <2> SUFFICES ASSUME IInv, [Next]_vars PROVE [Selection!Next]_(Selection!vars)
    OBVIOUS
  <2>1. CASE UNCHANGED vars
    BY <2>1 DEF vars, Selection!vars
  <2>2. CASE Moves /\ Finishes
    <3>1. found = {} /\ path = "undecided"
      BY <2>2 DEF Moves, IInv, Clean
    <3>2. found' \in {findings \in SUBSET Selection!Findings : found \subseteq findings}
      BY <2>2, <3>1 DEF Finishes, Selection!Findings
    <3>3. QED
      BY <2>2, <3>1, <3>2 DEF Finishes, Selection!Next, Selection!Decide
  <2>3. CASE Moves /\ Climbs
    BY <2>3 DEF Climbs, Selection!vars
  <2>4. QED
    BY <2>1, <2>2, <2>3, StepMoves DEF Moves
<1>3. QED
  BY <1>1, <1>2, MetadataInvariant, PTL DEF SafeSpec, Selection!SafeSpec
=============================================================================
