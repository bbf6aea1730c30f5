--------------------------- MODULE DatasourceProofs ---------------------------
(***************************************************************************)
(* Proofs about Datasource, for every table, every chain of projections    *)
(* and predicates, every tablet size and hint, and any changes of the      *)
(* table.  The inductive invariant, IInv, says what a cached discovery is  *)
(* good for and, of the tasks made from it, how much of the query every    *)
(* one has read.  At the end TabletGroups, the loop that makes the groups. *)
(***************************************************************************)
EXTENDS Datasource, TabletGroups, FiniteSetTheorems, TLAPS

\* The rows a task with this split is after.
InSplit(r, split) == split = None \/ r.tablet \in split

\* A discovery fits the source that keeps it: its schema, its conditions, its tablets.
Fitting(s) ==
    /\ s.asked = s.predicate
    /\ s.projection # <<>> => s.columns = s.projection
    /\ s.snapshot # None =>
          /\ s.columns # None => s.snapshot.schema = s.columns
          /\ s.snapshot.base \subseteq table.rows
          /\ s.snapshot.tablets # None =>
                \A r \in s.snapshot.base : Matches(r, s.predicate) => r.tablet \in s.snapshot.tablets

SourcesFit == \A n \in DOMAIN source : Fitting(source[n])

\* A call is for a source without discovery until it has made one.
CallFits ==
    call # None =>
        /\ call.source \in DOMAIN source
        /\ call.step = "group" <=> source[call.source].snapshot # None
        /\ call.step = "query_plan" =>
              /\ call.schema \in Schemas
              /\ source[call.source].columns # None => call.schema = source[call.source].columns

Jobs == [source : 1..MaxChain, columns : Projections \ {<<>>}, predicate : SUBSET Conditions,
         planned : Schemas, schema : Schemas \cup {<<>>}, base : SUBSET Rows,
         budget : RowLimits, limit : RowLimits \cup {0},
         splits : Seq({None} \cup SUBSET Tablets), result : Seq(Reads)]

\* A job is of its source, under the projection Ray asked for.
JobFits(j) ==
    /\ j \in Jobs
    /\ j.source \in DOMAIN source
    /\ j.predicate = source[j.source].predicate
    /\ source[j.source].projection # None => j.schema = source[j.source].projection
    /\ j.schema \in {<<>>, j.planned}
    /\ j.base \subseteq table.rows

\* The splits do not overlap and have every row the query wants, unless it wants none.
SplitsFit(j) ==
    /\ Len(j.result) = Len(j.splits)
    /\ \A m, n \in 1..Len(j.splits) :
          m # n => j.splits[m] # None /\ j.splits[m] \cap j.splits[n] = {}
    /\ \/ j.budget = 0
       \/ \A r \in j.base : Matches(r, j.predicate) =>
             \E n \in 1..Len(j.splits) : InSplit(r, j.splits[n])

\* The rows of a split that were there at discovery.
Share(j, split) == {r \in j.base : InSplit(r, split) /\ Matches(r, j.predicate)}

\* A reader has rows of its split, all of those it should have or as many as it may.
ReadFits(j, split, read) ==
    /\ read.rows \subseteq {r \in table.rows : InSplit(r, split) /\ Matches(r, j.predicate)}
    /\ j.budget # None => Cardinality(read.rows) <= j.budget
    /\ read.state = "unread" => j.limit = j.budget
    /\ read.state = "read" =>
          /\ read.columns = j.schema
          /\ IF j.budget = None THEN Share(j, split) \subseteq read.rows
             ELSE Cardinality(read.rows) >= Smaller(j.budget, Cardinality(Share(j, split)))

ReadsFit(j) == \A n \in 1..Len(j.splits) : ReadFits(j, j.splits[n], j.result[n])

JobInv == job # None => JobFits(job) /\ SplitsFit(job) /\ ReadsFit(job)

IInv == TypeOK /\ SourcesFit /\ CallFits /\ JobInv

-----------------------------------------------------------------------------
(* group_tablets.                                                          *)

\* The least number principle: induction, without an operator as parameter.
LEMMA LeastNat == ASSUME NEW T \in SUBSET Nat, T # {} PROVE \E n \in T : \A m \in T : n <= m
<1> DEFINE R == {ss \in Nat \X Nat : ss[1] < ss[2]}
<1>1. IsWellFoundedOn(R, Nat)
  BY NatLessThanWellFounded DEF OpToRel
<1> HIDE DEF R
<1>2. PICK x \in T : \A y \in T : ~(<<y, x>> \in R)
  BY <1>1, WFMin
<1>3. \A y \in T : y < x => <<y, x>> \in R
  BY DEF R
<1>4. \A y \in T : ~(y < x) /\ y \in Nat /\ x \in Nat
  BY <1>2, <1>3
<1>5. QED
  BY <1>4

\* Division with remainder.
LEMMA DivMod ==
  ASSUME NEW n \in Nat, NEW d \in Nat, d > 0
  PROVE  /\ n \div d \in Nat /\ n % d \in 0..(d - 1)
         /\ n = d * (n \div d) + (n % d)
<1>1. n \div d \in Int /\ n \div d >= 0
  BY SMT
<1>2. n % d \in 0..(d - 1) /\ n = d * (n \div d) + (n % d)
  BY SMT
<1>3. QED
  BY <1>1, <1>2

\* There is a group for some tablets, and no more groups than the hint.
LEMMA CountIsPositive ==
  ASSUME NEW n \in Nat, NEW s \in Nat, NEW p \in Nat, n > 0, s > 0, p > 0
  PROVE  Smaller(p, (n + s - 1) \div s) \in Nat \ {0}
<1> DEFINE m == n + s - 1
           d == m \div s
<1>1. m \in Nat /\ m >= s
  OBVIOUS
<1> HIDE DEF m
<1>2. d \in Nat /\ m % s \in 0..(s - 1) /\ m = s * d + (m % s)
  BY <1>1, DivMod
<1> HIDE DEF d
<1>3. d # 0
  <2> SUFFICES ASSUME d = 0 PROVE FALSE
    OBVIOUS
  <2>1. s * d = 0
    BY SMT
  <2>2. QED
    BY <1>1, <1>2, <2>1
<1>4. QED
  BY <1>2, <1>3 DEF Smaller, d, m

\* First tablets of the groups: from none to all, without a step back.
LEMMA FirstTablets ==
  ASSUME NEW n \in Nat, NEW count \in Nat \ {0}
  PROVE  LET first(i) == i * (n \div count) + Smaller(i, n % count)
         IN  /\ first(0) = 0 /\ first(count) = n
             /\ \A i \in 0..count : first(i) \in Nat
             /\ \A i, j \in 0..count : i <= j => first(i) <= first(j)
<1> DEFINE b == n \div count
           r == n % count
           first(i) == i * b + Smaller(i, r)
<1>1. b \in Nat /\ r \in 0..(count - 1) /\ n = count * b + r
  BY DivMod
<1> HIDE DEF b, r
<1>2. \A i \in Nat : i * b \in Nat
  BY <1>1
<1>3. \A i, j \in Nat : i <= j => i * b <= j * b
  BY <1>1
<1>4. 0 * b = 0
  BY <1>1
<1>5. first(0) = 0
  BY <1>1, <1>4 DEF Smaller
<1>6. first(count) = n
  BY <1>1, <1>2 DEF Smaller
<1>7. \A i \in 0..count : first(i) \in Nat
  BY <1>1, <1>2 DEF Smaller
<1>8. \A i, j \in 0..count : i <= j => first(i) <= first(j)
  <2> SUFFICES ASSUME NEW i \in 0..count, NEW j \in 0..count, i <= j PROVE first(i) <= first(j)
    OBVIOUS
  <2>1. i * b <= j * b /\ i * b \in Nat /\ j * b \in Nat
    BY <1>2, <1>3
  <2>2. Smaller(i, r) <= Smaller(j, r) /\ Smaller(i, r) \in Nat /\ Smaller(j, r) \in Nat
    BY <1>1 DEF Smaller
  <2>3. QED
    BY <2>1, <2>2
<1>9. QED
  BY <1>5, <1>6, <1>7, <1>8 DEF b, r

\* A number below the last of growing bounds lies between two of them.
LEMMA Between ==
  ASSUME NEW count \in Nat \ {0}, NEW first, NEW p \in Nat,
         first \in [0..count -> Nat], first[0] = 0, p < first[count]
  PROVE  \E i \in 1..count : first[i - 1] <= p /\ p < first[i]
<1> DEFINE above == {i \in 0..count : p < first[i]}
<1>1. count \in above /\ above \in SUBSET Nat /\ 0 \notin above
  OBVIOUS
<1> HIDE DEF above
<1>2. PICK i \in above : \A j \in above : i <= j
  BY <1>1, LeastNat
<1>3. i \in 1..count /\ p < first[i]
  BY <1>1, <1>2 DEF above
<1>4. i - 1 \in 0..count /\ ~(i <= i - 1)
  BY <1>3
<1>5. i - 1 \notin above
  BY <1>2, <1>4
<1>6. ~(p < first[i - 1]) /\ first[i - 1] \in Nat
  BY <1>4, <1>5 DEF above
<1>7. first[i - 1] <= p
  BY <1>6
<1>8. QED
  BY <1>3, <1>7

\* There are finitely many tablets, numbered.
LEMMA TabletsFinite == Tablets \subseteq Nat /\ IsFiniteSet(Tablets)
<1>1. IsFiniteSet(Rows) /\ \A r \in Rows : r.tablet \in Nat
  BY DatasourceAssumption
<1> DEFINE tablet == [r \in Rows |-> r.tablet]
<1>2. tablet \in Surjection(Rows, Tablets)
  BY DEF Surjection, Tablets
<1>3. IsFiniteSet(Tablets)
  BY <1>1, <1>2, FS_Surjection
<1>4. QED
  BY <1>1, <1>3 DEF Tablets

\* A tablet has a position among others.
LEMMA PositionsOfTablets ==
  ASSUME NEW tablets \in SUBSET Tablets, NEW t \in tablets
  PROVE  LET position == Cardinality({u \in tablets : u < t})
         IN  position \in Nat /\ position < Cardinality(tablets)
<1>1. Tablets \subseteq Nat
  BY TabletsFinite
<1>2. IsFiniteSet(tablets)
  BY TabletsFinite, FS_Subset
<1> DEFINE before == {u \in tablets : u < t}
<1>3. t \notin before /\ before \subseteq tablets
  BY <1>1
<1> HIDE DEF before
<1>4. before # tablets
  BY <1>3
<1>5. IsFiniteSet(before) /\ Cardinality(before) < Cardinality(tablets)
  BY <1>2, <1>3, <1>4, FS_Subset, FS_CardinalityType
<1>6. Cardinality(before) \in Nat
  BY <1>5, FS_CardinalityType
<1>7. QED
  BY <1>5, <1>6 DEF before

\* The groups of some tablets are at least one; every tablet is in one of them only.
LEMMA GroupsPartition ==
  ASSUME NEW tablets \in SUBSET Tablets, NEW hint \in Parallelism, tablets # {}
  PROVE  LET groups == GroupTablets(tablets, hint)
         IN  /\ groups \in Seq(SUBSET Tablets) /\ Len(groups) \in Nat \ {0}
             /\ \A i, j \in 1..Len(groups) : i # j => groups[i] \cap groups[j] = {}
             /\ \A t \in tablets : \E i \in 1..Len(groups) : t \in groups[i]
<1> DEFINE n == Cardinality(tablets)
           count == Smaller(hint, (n + TabletSize - 1) \div TabletSize)
           first(i) == i * (n \div count) + Smaller(i, n % count)
           position(t) == Cardinality({u \in tablets : u < t})
           group(i) == {t \in tablets : position(t) >= first(i - 1) /\ position(t) < first(i)}
           groups == [i \in 1..count |-> group(i)]
<1>1. GroupTablets(tablets, hint) = groups
  BY DEF GroupTablets
<1>2. \A t \in tablets : position(t) \in Nat /\ position(t) < n
  BY PositionsOfTablets
<1>3. n \in Nat /\ n > 0
  <2>1. IsFiniteSet(tablets)
    BY TabletsFinite, FS_Subset
  <2>2. n \in Nat /\ n # 0
    BY <2>1, FS_CardinalityType, FS_EmptySet
  <2>3. QED
    BY <2>2
<1>4. count \in Nat \ {0}
  <2>1. TabletSize \in Nat \ {0} /\ hint \in Nat \ {0}
    BY DatasourceAssumption
  <2> HIDE DEF n
  <2>2. QED
    BY <1>3, <2>1, CountIsPositive DEF n
<1> HIDE DEF n, count
<1>5. /\ first(0) = 0 /\ first(count) = n
      /\ \A i \in 0..count : first(i) \in Nat
      /\ \A i, j \in 0..count : i <= j => first(i) <= first(j)
  BY <1>3, <1>4, FirstTablets
<1> HIDE DEF first, position
<1>6. groups \in Seq(SUBSET Tablets) /\ Len(groups) = count
  <2>1. \A i \in 1..count : group(i) \in SUBSET Tablets
    OBVIOUS
  <2> HIDE DEF group
  <2>2. groups \in [1..count -> SUBSET Tablets] /\ count \in Nat
    BY <1>4, <2>1
  <2> HIDE DEF groups
  <2>3. QED
    BY <2>2
<1>7. ASSUME NEW i \in 1..count, NEW j \in 1..count, i < j PROVE group(i) \cap group(j) = {}
  <2> SUFFICES ASSUME NEW t \in tablets, position(t) < first(i), position(t) >= first(j - 1)
               PROVE  FALSE
    OBVIOUS
  <2>1. i \in 0..count /\ j - 1 \in 0..count /\ i <= j - 1
    BY <1>4, <1>7
  <2>2. first(i) <= first(j - 1) /\ first(i) \in Nat /\ first(j - 1) \in Nat
    BY <1>5, <2>1
  <2>3. position(t) \in Nat
    BY <1>2
  <2>4. QED
    BY <2>2, <2>3
<1>8. ASSUME NEW t \in tablets PROVE \E i \in 1..count : t \in group(i)
  <2> DEFINE bounds == [i \in 0..count |-> first(i)]
  <2>1. bounds \in [0..count -> Nat] /\ bounds[0] = 0 /\ bounds[count] = n
    BY <1>4, <1>5
  <2>2. position(t) \in Nat /\ position(t) < n
    BY <1>2
  <2> HIDE DEF bounds
  <2>3. PICK i \in 1..count : bounds[i - 1] <= position(t) /\ position(t) < bounds[i]
    BY <1>4, <2>1, <2>2, Between
  <2>4. i \in 0..count /\ i - 1 \in 0..count
    BY <1>4
  <2>5. first(i - 1) <= position(t) /\ position(t) < first(i) /\ first(i - 1) \in Nat
    BY <1>5, <2>3, <2>4 DEF bounds
  <2>6. position(t) >= first(i - 1)
    BY <2>2, <2>5
  <2>7. QED
    BY <2>5, <2>6
<1> HIDE DEF group
<1>9. \A i, j \in 1..count : i # j => groups[i] \cap groups[j] = {}
  <2> SUFFICES ASSUME NEW i \in 1..count, NEW j \in 1..count, i # j
               PROVE  group(i) \cap group(j) = {}
    OBVIOUS
  <2>1. i < j \/ j < i
    BY <1>4
  <2>2. QED
    BY <1>7, <2>1
<1>10. QED
  BY <1>1, <1>4, <1>6, <1>8, <1>9

\* Without tablets there are no groups.
LEMMA NoGroups ==
  ASSUME NEW hint PROVE GroupTablets({}, hint) = <<>>
  BY DEF GroupTablets

-----------------------------------------------------------------------------
(* What the steps keep of the invariant.                                   *)

\* The invariant says all there is to know about the type of a job.
LEMMA JobIsTyped ==
  JobInv => (job # None => /\ job.splits \in Seq({None} \cup SUBSET Tablets)
                           /\ job.result \in [DOMAIN job.splits -> Reads])
<1> SUFFICES ASSUME JobInv, job # None
             PROVE  /\ job.splits \in Seq({None} \cup SUBSET Tablets)
                    /\ job.result \in [DOMAIN job.splits -> Reads]
  OBVIOUS
<1>1. job \in Jobs /\ Len(job.result) = Len(job.splits)
  BY DEF JobInv, JobFits, SplitsFit
<1>2. job.splits \in Seq({None} \cup SUBSET Tablets) /\ job.result \in Seq(Reads)
  BY <1>1 DEF Jobs
<1>3. DOMAIN job.splits = DOMAIN job.result
  BY <1>1, <1>2
<1>4. QED
  BY <1>2, <1>3

\* A job does not mind new rows, nor new sources, nor what a source has discovered.
LEMMA JobKept ==
  ASSUME JobInv, job' = job, table.rows \subseteq table'.rows,
         \A n \in DOMAIN source :
            /\ n \in DOMAIN source'
            /\ source'[n].predicate = source[n].predicate
            /\ source'[n].projection = source[n].projection
  PROVE  JobInv'
<1> SUFFICES ASSUME job # None PROVE JobFits(job)' /\ SplitsFit(job)' /\ ReadsFit(job)'
  BY DEF JobInv
<1>1. JobFits(job) /\ SplitsFit(job) /\ ReadsFit(job)
  BY DEF JobInv
<1>2. JobFits(job)'
  BY <1>1 DEF JobFits
<1>3. SplitsFit(job)'
  BY <1>1 DEF SplitsFit
<1>4. ReadsFit(job)'
  BY <1>1 DEF ReadsFit, ReadFits, Share
<1>5. QED
  BY <1>2, <1>3, <1>4

\* A derived source that fits leaves the invariant as it is.
LEMMA Derived ==
  ASSUME IInv, NEW new \in Sources, Fitting(new), Len(source) < MaxChain,
         source' = Append(source, new), UNCHANGED <<table, call, job>>
  PROVE  IInv'
<1>1. source \in Seq(Sources) /\ Len(source) \in 1..MaxChain
  BY DEF IInv, TypeOK
<1>2. MaxChain \in Nat
  BY DatasourceAssumption
<1>3. /\ source' \in Seq(Sources) /\ Len(source') \in 1..MaxChain
      /\ DOMAIN source' = DOMAIN source \cup {Len(source) + 1}
      /\ \A n \in DOMAIN source : source'[n] = source[n]
      /\ source'[Len(source) + 1] = new
  BY <1>1, <1>2
<1>4. SourcesFit'
  <2>1. Fitting(new)' /\ \A n \in DOMAIN source : Fitting(source[n])'
    BY <1>3 DEF IInv, SourcesFit, Fitting
  <2>2. QED
    BY <1>3, <2>1 DEF SourcesFit, Fitting
<1>5. CallFits'
  BY <1>3 DEF IInv, CallFits
<1>6. JobInv'
  BY <1>3, JobKept DEF IInv
<1>7. TypeOK'
  <2>1. (job # None => /\ job.splits \in Seq({None} \cup SUBSET Tablets)
                       /\ job.result \in [DOMAIN job.splits -> Reads])'
    BY <1>6, JobIsTyped, PTL
  <2>2. QED
    BY <1>3, <2>1 DEF IInv, TypeOK
<1>8. QED
  BY <1>4, <1>5, <1>6, <1>7 DEF IInv

LEMMA InitIInv == Init => IInv
<1> SUFFICES ASSUME Init PROVE IInv
  OBVIOUS
<1>1. PICK columns \in Projections \ {<<>>}, external \in Externals :
         source = <<[parent |-> 0, external |-> external,
                     columns |-> columns, projection |-> columns,
                     predicate |-> {}, asked |-> {}, snapshot |-> None]>>
  BY DEF Init
<1> DEFINE s == [parent |-> 0, external |-> external, columns |-> columns, projection |-> columns,
                 predicate |-> {}, asked |-> {}, snapshot |-> None]
<1>2. MaxChain \in Nat \ {0} /\ InitialRows \subseteq Rows
  <2>1. MaxSources \in Nat \ {0} /\ MaxChain \in Nat /\ MaxSources <= MaxChain
    BY DatasourceAssumption
  <2>2. QED
    BY <2>1, DatasourceAssumption
<1>3. s \in Sources
  BY <1>2 DEF Sources
<1>4. source = <<s>> /\ Fitting(s)
  BY <1>1 DEF Fitting
<1> HIDE DEF s
<1>5. source \in Seq(Sources) /\ Len(source) = 1 /\ DOMAIN source = {1} /\ source[1] = s
  BY <1>3, <1>4
<1>6. SourcesFit
  BY <1>4, <1>5 DEF SourcesFit
<1>7. TypeOK
  BY <1>2, <1>5 DEF Init, TypeOK
<1>8. QED
  BY <1>6, <1>7 DEF Init, IInv, CallFits, JobInv

LEMMA ApplyPredicateKeeps ==
  ASSUME IInv, NEW n \in DOMAIN source, NEW c \in Conditions, ApplyPredicate(n, c)
  PROVE  IInv'
<1> DEFINE s == source[n]
           new == [s EXCEPT !.parent = n, !.predicate = @ \cup {c},
                            !.asked = @ \cup {c}, !.snapshot = None]
<1>1. source \in Seq(Sources) /\ Len(source) \in 1..MaxChain /\ MaxChain \in Nat
  BY DatasourceAssumption DEF IInv, TypeOK
<1>2. s \in Sources /\ n \in 0..MaxChain
  BY <1>1
<1>3. new \in Sources
  BY <1>2 DEF Sources
<1>4. Fitting(s)
  BY DEF IInv, SourcesFit
<1>5. Fitting(new)
  BY <1>2, <1>4 DEF Fitting, Sources
<1>6. Len(source) < MaxChain
  <2>1. MaxSources \in Nat /\ MaxSources <= MaxChain
    BY DatasourceAssumption
  <2>2. QED
    BY <1>1, <2>1 DEF ApplyPredicate, MayPush
<1>7. source' = Append(source, new) /\ UNCHANGED <<table, call, job>>
  BY DEF ApplyPredicate
<1> HIDE DEF new
<1>8. QED
  BY <1>3, <1>5, <1>6, <1>7, Derived

LEMMA ApplyProjectionKeeps ==
  ASSUME IInv, NEW n \in DOMAIN source, NEW map \in Projections, ApplyProjection(n, map)
  PROVE  IInv'
<1> DEFINE s == source[n]
           columns == IF map = None THEN s.projection ELSE map
           physical == IF columns = <<>> THEN s.columns ELSE columns
           kept == KeptSnapshot(n, columns)
           new == [s EXCEPT !.parent = n, !.projection = columns,
                            !.columns = physical, !.snapshot = kept]
<1>1. source \in Seq(Sources) /\ Len(source) \in 1..MaxChain /\ MaxChain \in Nat
  BY DatasourceAssumption DEF IInv, TypeOK
<1>2. s \in Sources /\ n \in 0..MaxChain
  BY <1>1
<1>3. columns \in Projections /\ kept \in {None} \cup Snapshots
  BY <1>2 DEF Sources, KeptSnapshot
<1>4. physical \in Projections \ {<<>>}
  BY <1>2, <1>3 DEF Sources
<1>5. Fitting(s)
  BY DEF IInv, SourcesFit
<1>6. kept # None => kept = s.snapshot /\ columns = s.projection
  BY DEF KeptSnapshot
<1>7. source' = Append(source, new) /\ UNCHANGED <<table, call, job>> /\ Len(source) < MaxChain
  <2>1. MaxSources \in Nat /\ MaxSources <= MaxChain
    BY DatasourceAssumption
  <2>2. source' = Append(source, [s EXCEPT !.parent = n, !.projection = columns,
                                           !.columns = IF columns = <<>> THEN @ ELSE columns,
                                           !.snapshot = kept])
    BY DEF ApplyProjection
  <2>3. Len(source) < MaxSources /\ UNCHANGED <<table, call, job>>
    BY DEF ApplyProjection
  <2>4. QED
    BY <1>1, <2>1, <2>2, <2>3
<1> HIDE DEF kept, columns
<1>8. physical = s.columns \/ (physical = columns /\ columns # <<>>)
  OBVIOUS
<1>9. columns # <<>> => physical = columns
  OBVIOUS
<1>10. kept # None => physical = s.columns
  BY <1>5, <1>6, <1>8 DEF Fitting
<1> HIDE DEF physical
<1>11. new \in Sources
  BY <1>2, <1>3, <1>4 DEF Sources
<1>12. /\ new.asked = s.asked /\ new.predicate = s.predicate /\ new.projection = columns
       /\ new.columns = physical /\ new.snapshot = kept
  BY <1>2 DEF Sources
<1> HIDE DEF new
<1>13. Fitting(new)
  BY <1>5, <1>6, <1>9, <1>10, <1>12 DEF Fitting
<1>14. QED
  BY <1>7, <1>11, <1>13, Derived

\* A call and a discovery leave the job alone.
LEMMA GetReadTasksKeeps ==
  ASSUME IInv, NEW n \in DOMAIN source, NEW p \in Parallelism, NEW limit \in RowLimits,
         GetReadTasks(n, p, limit)
  PROVE  IInv'
<1>1. /\ source' = source /\ table' = table /\ job' = job
      /\ call' = [source |-> n, parallelism |-> p, limit |-> limit, schema |-> None,
                  step |-> IF source[n].snapshot = None THEN "describe" ELSE "group"]
  BY DEF GetReadTasks
<1>2. n \in 1..MaxChain
  BY DatasourceAssumption DEF IInv, TypeOK
<1>3. call' \in Calls
  BY <1>1, <1>2 DEF Calls
<1>4. CallFits'
  BY <1>1 DEF CallFits
<1>5. TypeOK'
  BY <1>1, <1>3 DEF IInv, TypeOK
<1>6. SourcesFit'
  BY <1>1 DEF IInv, SourcesFit, Fitting
<1>7. JobInv'
  BY <1>1, JobKept DEF IInv
<1>8. QED
  BY <1>4, <1>5, <1>6, <1>7 DEF IInv

LEMMA DiscoveredKeeps ==
  ASSUME IInv, call # None, call.step \in {"describe", "query_plan"},
         NEW schema \in Schemas, NEW tablets \in {None} \cup SUBSET Tablets,
         source[call.source].columns # None => schema = source[call.source].columns,
         tablets # None => \A r \in table.rows :
            Matches(r, source[call.source].predicate) => r.tablet \in tablets,
         Discovered(schema, tablets), UNCHANGED <<table, job>>
  PROVE  IInv'
<1>0. PICK m \in DOMAIN source : m = call.source
  BY DEF IInv, CallFits
<1> DEFINE found == [schema |-> schema, tablets |-> tablets, base |-> table.rows]
<1>1. source \in Seq(Sources) /\ Len(source) \in 1..MaxChain /\ call \in Calls
  BY DEF IInv, TypeOK
<1>2. m \in DOMAIN source /\ source[m].snapshot = None
  BY <1>0 DEF IInv, CallFits
<1>3. found \in Snapshots /\ found # None
  <2>1. table.rows \in SUBSET Rows
    BY DEF IInv, TypeOK
  <2>2. found \in Snapshots
    BY <2>1 DEF Snapshots
  <2>3. QED
    BY <2>2, NoneIsNoValue
<1>4. source' = [source EXCEPT ![m].snapshot = found]
  BY <1>0 DEF Discovered
<1>5. call' = [call EXCEPT !.step = "group", !.schema = schema]
  BY DEF Discovered
<1>6. source[m] \in Sources
  BY <1>1, <1>2
<1>7. [source[m] EXCEPT !.snapshot = found] \in Sources
  BY <1>3, <1>6 DEF Sources
<1>8. source' \in Seq(Sources) /\ Len(source') = Len(source) /\ DOMAIN source' = DOMAIN source
  BY <1>1, <1>2, <1>4, <1>7
<1>9. \A n \in DOMAIN source : n # m => source'[n] = source[n]
  BY <1>4
<1>10. /\ source'[m].snapshot = found
       /\ source'[m].predicate = source[m].predicate /\ source'[m].asked = source[m].asked
       /\ source'[m].columns = source[m].columns /\ source'[m].projection = source[m].projection
  BY <1>2, <1>4, <1>6 DEF Sources
<1>11. call' \in Calls /\ call'.source = m /\ call'.step = "group"
  BY <1>0, <1>1, <1>5 DEF Calls
<1>12. CallFits'
  BY <1>2, <1>3, <1>8, <1>10, <1>11 DEF CallFits
<1>13. SourcesFit'
  <2>1. ASSUME NEW n \in DOMAIN source, n # m PROVE Fitting(source[n])'
    BY <1>9, <2>1 DEF IInv, SourcesFit, Fitting
  <2>2. Fitting(source[m])'
    <3>1. Fitting(source[m])
      BY <1>2 DEF IInv, SourcesFit
    <3>2. table'.rows = table.rows
      OBVIOUS
    <3>3. QED
      BY <1>0, <1>10, <3>1, <3>2 DEF Fitting
  <2>3. QED
    BY <1>8, <2>1, <2>2 DEF SourcesFit
<1>14. JobInv'
  <2>1. \A n \in DOMAIN source : /\ n \in DOMAIN source'
                                 /\ source'[n].predicate = source[n].predicate
                                 /\ source'[n].projection = source[n].projection
    BY <1>8, <1>9, <1>10
  <2>2. QED
    BY <2>1, JobKept DEF IInv
<1>15. TypeOK'
  <2>1. (job # None => /\ job.splits \in Seq({None} \cup SUBSET Tablets)
                       /\ job.result \in [DOMAIN job.splits -> Reads])'
    BY <1>14, JobIsTyped, PTL
  <2>2. QED
    BY <1>8, <1>11, <2>1 DEF IInv, TypeOK
<1>16. QED
  BY <1>12, <1>13, <1>14, <1>15 DEF IInv

\* A step that only sends the call on, or ends it.
LEMMA CalledKeeps ==
  ASSUME IInv, UNCHANGED <<table, source, job>>,
         call' # None =>
            /\ call' \in Calls /\ call'.source \in DOMAIN source
            /\ call'.step = "group" <=> source[call'.source].snapshot # None
            /\ call'.step = "query_plan" =>
                  /\ call'.schema \in Schemas
                  /\ source[call'.source].columns # None => call'.schema = source[call'.source].columns
  PROVE  IInv'
<1>1. CallFits'
  BY DEF CallFits
<1>2. TypeOK'
  BY DEF IInv, TypeOK
<1>3. SourcesFit'
  BY DEF IInv, SourcesFit, Fitting
<1>4. JobInv'
  BY JobKept DEF IInv
<1>5. QED
  BY <1>1, <1>2, <1>3, <1>4 DEF IInv

LEMMA DescribeKeeps == ASSUME IInv, Describe PROVE IInv'
<1>1. PICK m \in DOMAIN source : m = call.source
  BY DEF IInv, CallFits, Describe
<1> DEFINE columns == source[m].columns
           schema == SchemaOf(columns)
<1>2. source \in Seq(Sources) /\ call \in Calls /\ call # None /\ call.step = "describe"
  BY DEF IInv, TypeOK, Describe
<1>3. source[m] \in Sources
  BY <1>2
<1>4. schema \in Schemas /\ (columns # None => schema = columns)
  <2>1. columns \in Projections \ {<<>>}
    BY <1>3 DEF Sources
  <2>2. table.columns \in {InitialColumns, AlteredColumns}
    BY DEF IInv, TypeOK
  <2>3. QED
    BY <2>1, <2>2 DEF Schemas, SchemaOf
<1>5. UNCHANGED <<table, job>>
  BY DEF Describe
<1>6. CASE source[m].external
  <2>1. Discovered(schema, None)
    BY <1>1, <1>6 DEF Describe
  <2> HIDE DEF schema
  <2>2. QED
    BY <1>1, <1>2, <1>4, <1>5, <2>1, DiscoveredKeeps
<1>7. CASE ~source[m].external
  <2>1. source' = source /\ call' = [call EXCEPT !.step = "query_plan", !.schema = schema]
    BY <1>1, <1>7 DEF Describe
  <2> HIDE DEF schema
  <2>2. call' \in Calls /\ call'.source = m /\ call'.step = "query_plan" /\ call'.schema = schema
    BY <1>1, <1>2, <1>4, <2>1 DEF Calls
  <2>3. source[m].snapshot = None
    BY <1>1, <1>2 DEF IInv, CallFits
  <2>4. QED
    BY <1>4, <1>5, <2>1, <2>2, <2>3, CalledKeeps
<1>8. QED
  BY <1>6, <1>7

\* What the query plan step knows from the description.
LEMMA Described ==
  ASSUME IInv, call # None, call.step = "query_plan"
  PROVE  /\ call.schema \in Schemas
         /\ source[call.source].columns # None => call.schema = source[call.source].columns
  BY DEF IInv, CallFits

LEMMA QueryPlanKeeps == ASSUME IInv, QueryPlan PROVE IInv'
<1>1. call # None /\ call.step = "query_plan" /\ UNCHANGED <<table, job>>
  BY DEF QueryPlan
<1> DEFINE wanted == {r \in table.rows : Matches(r, source[call.source].predicate)}
<1>2. PICK tablets \in SUBSET Tablets :
         {r.tablet : r \in wanted} \subseteq tablets /\ Discovered(call.schema, tablets)
  BY DEF QueryPlan
<1>3. \A r \in table.rows : Matches(r, source[call.source].predicate) => r.tablet \in tablets
  BY <1>2
<1> HIDE DEF wanted
<1>4. QED
  BY <1>1, <1>2, <1>3, Described, DiscoveredKeeps

LEMMA QueryPlanUnavailableKeeps == ASSUME IInv, QueryPlanUnavailable PROVE IInv'
<1>1. call # None /\ call.step = "query_plan" /\ UNCHANGED <<table, job>> /\ Discovered(call.schema, None)
  BY DEF QueryPlanUnavailable
<1>2. QED
  BY <1>1, Described, DiscoveredKeeps

LEMMA TableKeeps ==
  ASSUME IInv, UNCHANGED <<source, call, job>>,
         table' \in [columns : {InitialColumns, AlteredColumns}, rows : SUBSET Rows],
         table.rows \subseteq table'.rows
  PROVE  IInv'
<1>1. CallFits'
  BY DEF IInv, CallFits
<1>2. TypeOK'
  BY DEF IInv, TypeOK
<1>3. SourcesFit'
  BY DEF IInv, SourcesFit, Fitting
<1>4. JobInv'
  BY JobKept DEF IInv
<1>5. QED
  BY <1>1, <1>2, <1>3, <1>4 DEF IInv

LEMMA InsertKeeps == ASSUME IInv, NEW r \in Rows, Insert(r) PROVE IInv'
<1>1. table \in [columns : {InitialColumns, AlteredColumns}, rows : SUBSET Rows]
  BY DEF IInv, TypeOK
<1>2. table' = [table EXCEPT !.rows = @ \cup {r}] /\ UNCHANGED <<source, call, job>>
  BY DEF Insert
<1>3. table' \in [columns : {InitialColumns, AlteredColumns}, rows : SUBSET Rows]
      /\ table.rows \subseteq table'.rows
  BY <1>1, <1>2
<1>4. QED
  BY <1>2, <1>3, TableKeeps

LEMMA AlterKeeps == ASSUME IInv, Alter PROVE IInv'
<1>1. table \in [columns : {InitialColumns, AlteredColumns}, rows : SUBSET Rows]
  BY DEF IInv, TypeOK
<1>2. table' = [table EXCEPT !.columns = AlteredColumns] /\ UNCHANGED <<source, call, job>>
  BY DEF Alter
<1>3. table' \in [columns : {InitialColumns, AlteredColumns}, rows : SUBSET Rows]
      /\ table.rows \subseteq table'.rows
  BY <1>1, <1>2
<1>4. QED
  BY <1>2, <1>3, TableKeeps

-----------------------------------------------------------------------------
(* The tasks and what they read.                                           *)

\* A step that makes a job, or goes on with it, and leaves sources and table alone.
LEMMA WorkedKeeps ==
  ASSUME IInv, UNCHANGED <<table, source>>, call' \in {None, call}, JobInv'
  PROVE  IInv'
<1>1. CallFits'
  BY DEF IInv, CallFits
<1>2. TypeOK'
  <2>1. (job # None => /\ job.splits \in Seq({None} \cup SUBSET Tablets)
                       /\ job.result \in [DOMAIN job.splits -> Reads])'
    BY JobIsTyped, PTL
  <2>2. QED
    BY <2>1 DEF IInv, TypeOK
<1>3. SourcesFit'
  BY DEF IInv, SourcesFit, Fitting
<1>4. QED
  BY <1>1, <1>2, <1>3 DEF IInv

\* The rows of a discovery and of a table are finitely many.
LEMMA RowsFinite == ASSUME NEW rows \in SUBSET Rows PROVE IsFiniteSet(rows) /\ Cardinality(rows) \in Nat
<1>1. IsFiniteSet(Rows)
  BY DatasourceAssumption
<1>2. IsFiniteSet(rows)
  BY <1>1, FS_Subset
<1>3. QED
  BY <1>2, FS_CardinalityType

\* More rows count no less.
LEMMA RowsCount ==
  ASSUME NEW rows \in SUBSET Rows, NEW some \in SUBSET rows
  PROVE  /\ Cardinality(some) <= Cardinality(rows)
         /\ Cardinality(some) = Cardinality(rows) => some = rows
  BY RowsFinite, FS_Subset

\* A budget is a number.
LEMMA BudgetIsNumber == ASSUME NEW limit \in RowLimits, limit # None PROVE limit \in Nat
  BY DatasourceAssumption

\* A read that fits its split takes the place of one under way.
LEMMA ResultKeeps ==
  ASSUME IInv, job # None, NEW i \in DOMAIN job.splits, NEW read \in Reads,
         ReadFits(job, job.splits[i], read),
         job' = [job EXCEPT !.result[i] = read], UNCHANGED <<table, source, call>>
  PROVE  IInv'
<1>1. JobFits(job) /\ SplitsFit(job) /\ ReadsFit(job)
  BY DEF IInv, JobInv
<1>2. job \in Jobs
  BY <1>1 DEF JobFits
<1>3. /\ job.splits \in Seq({None} \cup SUBSET Tablets) /\ job.result \in Seq(Reads)
      /\ Len(job.result) = Len(job.splits)
  BY <1>1, <1>2 DEF SplitsFit, Jobs
<1>4. i \in 1..Len(job.splits)
  BY <1>3
<1>5. [job.result EXCEPT ![i] = read] \in Seq(Reads) /\ Len([job.result EXCEPT ![i] = read]) = Len(job.result)
  BY <1>3, <1>4
<1>6. job' \in Jobs /\ job'.result = [job.result EXCEPT ![i] = read]
  BY <1>2, <1>5 DEF Jobs
<1>7. /\ job'.source = job.source /\ job'.columns = job.columns /\ job'.predicate = job.predicate
      /\ job'.planned = job.planned /\ job'.schema = job.schema /\ job'.base = job.base
      /\ job'.budget = job.budget /\ job'.limit = job.limit /\ job'.splits = job.splits
  BY <1>2 DEF Jobs
<1>8. JobFits(job)'
  BY <1>1, <1>6, <1>7 DEF JobFits
<1>9. SplitsFit(job)'
  BY <1>1, <1>3, <1>5, <1>6, <1>7 DEF SplitsFit
<1>10. ReadsFit(job)'
  <2> SUFFICES ASSUME NEW n \in 1..Len(job.splits) PROVE ReadFits(job, job.splits[n], job.result[n])'
    BY <1>7 DEF ReadsFit
  <2>1. job'.result[n] = IF n = i THEN read ELSE job.result[n]
    BY <1>3, <1>6
  <2>2. ReadFits(job, job.splits[n], job'.result[n])
    BY <1>1, <2>1 DEF ReadsFit
  <2>3. QED
    BY <1>7, <2>2 DEF ReadFits, Share
<1>11. job' # None => JobFits(job)' /\ SplitsFit(job)' /\ ReadsFit(job)'
  BY <1>8, <1>9, <1>10
<1>12. QED
  BY <1>11, WorkedKeeps DEF JobInv

LEMMA ReadFailsKeeps == ASSUME IInv, job # None, NEW i \in DOMAIN job.splits, ReadFails(i) PROVE IInv'
<1>1. JobFits(job) /\ SplitsFit(job) /\ ReadsFit(job)
  BY DEF IInv, JobInv
<1>2. /\ job.splits \in Seq({None} \cup SUBSET Tablets) /\ job.result \in Seq(Reads)
      /\ Len(job.result) = Len(job.splits)
  BY <1>1 DEF SplitsFit, JobFits, Jobs
<1>3. job.result[i] \in Reads /\ ReadFits(job, job.splits[i], job.result[i])
  BY <1>1, <1>2 DEF ReadsFit
<1> DEFINE read == [job.result[i] EXCEPT !.state = "failed"]
<1>4. read \in Reads /\ read.rows = job.result[i].rows /\ read.state = "failed"
  BY <1>3 DEF Reads
<1>5. job' = [job EXCEPT !.result[i] = read] /\ UNCHANGED <<table, source, call>>
  BY DEF ReadFails
<1> HIDE DEF read
<1>6. ReadFits(job, job.splits[i], read)
  BY <1>3, <1>4 DEF ReadFits
<1>7. QED
  BY <1>4, <1>5, <1>6, ResultKeeps

LEMMA ReadSplitKeeps == ASSUME IInv, job # None, NEW i \in DOMAIN job.splits, ReadSplit(i) PROVE IInv'
<1>1. JobFits(job) /\ SplitsFit(job) /\ ReadsFit(job)
  BY DEF IInv, JobInv
<1>2. /\ job \in Jobs /\ job.splits \in Seq({None} \cup SUBSET Tablets) /\ job.result \in Seq(Reads)
      /\ Len(job.result) = Len(job.splits)
  BY <1>1 DEF SplitsFit, JobFits, Jobs
<1> DEFINE split == job.splits[i]
           found == Found(split)
<1>3. job.result[i] = Unread /\ ReadFits(job, split, job.result[i])
  BY <1>1, <1>2 DEF ReadsFit, ReadSplit
<1>4. PICK rows \in SUBSET found :
         /\ IF job.limit = None THEN rows = found
            ELSE Cardinality(rows) = Smaller(job.limit, Cardinality(found))
         /\ rows # {} => ColumnsFit(SchemaOf(job.columns))
         /\ job' = [job EXCEPT !.result[i] =
               [state |-> "read", rows |-> rows,
                columns |-> IF rows = {} \/ job.schema = <<>> THEN job.schema
                            ELSE SchemaOf(job.columns)]]
  BY DEF ReadSplit
<1> DEFINE columns == IF rows = {} \/ job.schema = <<>> THEN job.schema ELSE SchemaOf(job.columns)
           read == [state |-> "read", rows |-> rows, columns |-> columns]
<1>5. columns = job.schema /\ job.schema \in Schemas \cup {<<>>}
  BY <1>1, <1>2, <1>4 DEF ColumnsFit, JobFits, Jobs
<1>6. /\ found = {r \in table.rows : InSplit(r, split) /\ Matches(r, job.predicate)}
      /\ found \in SUBSET Rows /\ Share(job, split) \subseteq found
  <2>1. table.rows \subseteq Rows /\ job.base \subseteq table.rows
    BY <1>1 DEF IInv, TypeOK, JobFits
  <2>2. found = {r \in table.rows : InSplit(r, split) /\ Matches(r, job.predicate)}
    BY DEF Found, InSplit
  <2>3. QED
    BY <2>1, <2>2 DEF Share
<1>7. job.limit = job.budget /\ job.budget \in RowLimits
  BY <1>2, <1>3 DEF ReadFits, Unread, Jobs
<1>8. /\ read.state = "read" /\ read.rows = rows /\ read.columns = job.schema /\ read \in Reads
      /\ job' = [job EXCEPT !.result[i] = read]
  BY <1>4, <1>5, <1>6 DEF Reads
<1> HIDE DEF read, columns, found, split
<1>9. IF job.budget = None THEN rows = found
      ELSE /\ Cardinality(rows) <= job.budget
           /\ Cardinality(rows) >= Smaller(job.budget, Cardinality(Share(job, split)))
  <2>1. CASE job.budget = None
    BY <1>4, <1>7, <2>1
  <2>2. CASE job.budget # None
    <3>1. Cardinality(rows) = Smaller(job.budget, Cardinality(found)) /\ job.budget \in Nat
      BY <1>4, <1>7, <2>2, BudgetIsNumber
    <3>2. Cardinality(found) \in Nat
      BY <1>6, RowsFinite
    <3>3. Cardinality(Share(job, split)) <= Cardinality(found)
      BY <1>6, RowsCount
    <3>4. Share(job, split) \in SUBSET Rows
      BY <1>6
    <3>5. Cardinality(Share(job, split)) \in Nat
      BY <3>4, RowsFinite
    <3>6. QED
      BY <2>2, <3>1, <3>2, <3>3, <3>5 DEF Smaller
  <2>3. QED
    BY <2>1, <2>2
<1>10. ReadFits(job, split, read)
  BY <1>6, <1>8, <1>9 DEF ReadFits
<1>11. UNCHANGED <<table, source, call>>
  BY DEF ReadSplit
<1>12. QED
  BY <1>8, <1>10, <1>11, ResultKeeps DEF split

\* The splits made from a discovery have every row the query wants, each once.
LEMMA SplitsOf ==
  ASSUME NEW tablets \in {None} \cup SUBSET Tablets, NEW hint \in Parallelism
  PROVE  LET cut == IF tablets = None THEN <<None>> ELSE GroupTablets(tablets, hint)
         IN  /\ cut \in Seq({None} \cup SUBSET Tablets)
             /\ \A m, n \in 1..Len(cut) : m # n => cut[m] # None /\ cut[m] \cap cut[n] = {}
             /\ \A r \in Rows : (tablets # None => r.tablet \in tablets) =>
                   \E n \in 1..Len(cut) : InSplit(r, cut[n])
<1>1. CASE tablets = None
  BY <1>1 DEF InSplit
<1>2. CASE tablets = {}
  <2>1. GroupTablets(tablets, hint) = <<>> /\ tablets # None
    BY <1>2, NoGroups, NoneIsNoValue
  <2>2. <<>> \in Seq({None} \cup SUBSET Tablets) /\ 1..Len(<<>>) = {}
    OBVIOUS
  <2>3. \A r \in Rows : r.tablet \notin tablets
    BY <1>2
  <2>4. QED
    BY <2>1, <2>2, <2>3
<1>3. CASE tablets \in SUBSET Tablets /\ tablets # {}
  <2> DEFINE groups == GroupTablets(tablets, hint)
  <2>1. /\ groups \in Seq(SUBSET Tablets) /\ Len(groups) \in Nat \ {0}
        /\ \A i, j \in 1..Len(groups) : i # j => groups[i] \cap groups[j] = {}
        /\ \A t \in tablets : \E i \in 1..Len(groups) : t \in groups[i]
    BY <1>3, GroupsPartition
  <2>2. tablets # None
    BY <1>3, NoneIsNoValue
  <2> HIDE DEF groups
  <2>3. groups \in Seq({None} \cup SUBSET Tablets)
    BY <2>1
  <2>4. \A m \in 1..Len(groups) : groups[m] \in SUBSET Tablets
    BY <2>1
  <2>5. \A m \in 1..Len(groups) : groups[m] # None
    BY <2>4, NoneIsNoValue
  <2>6. \A r \in Rows : r.tablet \in tablets => \E n \in 1..Len(groups) : InSplit(r, groups[n])
    BY <2>1 DEF InSplit
  <2>7. QED
    BY <2>1, <2>2, <2>3, <2>5, <2>6 DEF groups
<1>4. QED
  BY <1>1, <1>2, <1>3

LEMMA MakeTasksKeeps == ASSUME IInv, MakeTasks PROVE IInv'
<1>1. PICK m \in DOMAIN source : m = call.source /\ source[m].snapshot # None
  BY DEF IInv, CallFits, MakeTasks
<1> DEFINE s == source[m]
           found == s.snapshot
           cut == IF found.tablets = None THEN <<None>>
                  ELSE GroupTablets(found.tablets, call.parallelism)
           schema == IF s.projection = <<>> THEN <<>> ELSE found.schema
           empty == cut = <<>> \/ call.limit = 0
           nothing == [state |-> "read", columns |-> schema, rows |-> {}]
           limit == IF empty THEN 0 ELSE TaskLimit(call.limit, cut)
           tasks == IF empty THEN <<{}>> ELSE cut
           result == IF empty THEN <<nothing>> ELSE [i \in DOMAIN cut |-> Unread]
<1>2. /\ source \in Seq(Sources) /\ Len(source) \in 1..MaxChain /\ call \in Calls
      /\ table.rows \subseteq Rows /\ MaxChain \in Nat
  BY DatasourceAssumption DEF IInv, TypeOK, MakeTasks
<1>3. m \in 1..MaxChain /\ s \in Sources /\ Fitting(s)
  BY <1>2 DEF IInv, SourcesFit
<1>4. found \in Snapshots /\ found # None
  BY <1>1, <1>3 DEF Sources
<1>5. /\ found.schema \in Schemas /\ found.tablets \in {None} \cup SUBSET Tablets
      /\ found.base \in SUBSET Rows
  BY <1>4 DEF Snapshots
<1>6. call.parallelism \in Parallelism /\ call.limit \in RowLimits
  BY <1>2 DEF Calls
<1>7. /\ found.base \subseteq table.rows
      /\ found.tablets # None =>
            \A r \in found.base : Matches(r, s.predicate) => r.tablet \in found.tablets
      /\ s.projection # <<>> => s.columns = s.projection
      /\ s.columns # None => found.schema = s.columns
  BY <1>1, <1>3 DEF Fitting
<1>8. job' = [source |-> m, columns |-> s.columns, predicate |-> s.predicate,
              planned |-> found.schema, schema |-> schema, base |-> found.base,
              budget |-> call.limit, limit |-> limit, splits |-> tasks, result |-> result]
  BY <1>1 DEF MakeTasks
<1>9. call' = None /\ UNCHANGED <<table, source>>
  BY DEF MakeTasks
<1>10. /\ cut \in Seq({None} \cup SUBSET Tablets)
       /\ \A i, j \in 1..Len(cut) : i # j => cut[i] # None /\ cut[i] \cap cut[j] = {}
       /\ \A r \in Rows : (found.tablets # None => r.tablet \in found.tablets) =>
             \E i \in 1..Len(cut) : InSplit(r, cut[i])
  BY <1>5, <1>6, SplitsOf
<1>11. schema \in Schemas \cup {<<>>} /\ schema \in {<<>>, found.schema}
       /\ (s.projection # None => schema = s.projection)
  BY <1>5, <1>7
<1> HIDE DEF cut, found, schema
<1>12. nothing \in Reads
  BY <1>11 DEF Reads
<1>13. Unread \in Reads
  BY DEF Reads, Unread
<1>14. /\ empty => tasks = <<{}>> /\ result = <<nothing>>
       /\ ~empty => /\ tasks = cut /\ limit = call.limit
                    /\ result = [i \in 1..Len(cut) |-> Unread]
  <2>1. DOMAIN cut = 1..Len(cut)
    BY <1>10
  <2> HIDE DEF empty, nothing
  <2>2. QED
    BY <2>1 DEF TaskLimit
<1>15. limit \in RowLimits \cup {0}
  BY <1>6 DEF TaskLimit
<1> DEFINE none == empty
<1>16. empty => cut = <<>> \/ call.limit = 0
  OBVIOUS
<1> HIDE DEF nothing
<1>17. tasks \in Seq({None} \cup SUBSET Tablets) /\ result \in Seq(Reads) /\ Len(result) = Len(tasks)
  <2>1. CASE empty
    <3>1. {} \in {None} \cup SUBSET Tablets
      OBVIOUS
    <3>2. <<{}>> \in Seq({None} \cup SUBSET Tablets) /\ Len(<<{}>>) = 1
      BY <3>1
    <3>3. <<nothing>> \in Seq(Reads) /\ Len(<<nothing>>) = 1
      BY <1>12
    <3>4. QED
      BY <1>14, <2>1, <3>2, <3>3
  <2>2. CASE ~empty
    <3>1. Len(cut) \in Nat
      BY <1>10
    <3>2. result \in Seq(Reads) /\ Len(result) = Len(cut)
      BY <1>13, <1>14, <2>2, <3>1
    <3>3. QED
      BY <1>10, <1>14, <2>2, <3>2
  <2>3. QED
    BY <2>1, <2>2
<1> HIDE DEF empty, tasks, result, limit
<1>18. job' \in Jobs
  <2>1. s.columns \in Projections \ {<<>>} /\ s.predicate \in SUBSET Conditions
    BY <1>3 DEF Sources
  <2> HIDE DEF s
  <2>2. QED
    BY <1>3, <1>5, <1>6, <1>8, <1>11, <1>15, <1>17, <2>1 DEF Jobs
<1>19. /\ job'.source = m /\ job'.predicate = s.predicate /\ job'.planned = found.schema
       /\ job'.schema = schema /\ job'.base = found.base /\ job'.budget = call.limit
       /\ job'.limit = limit /\ job'.splits = tasks /\ job'.result = result
  BY <1>8
<1>20. JobFits(job)'
  BY <1>7, <1>9, <1>11, <1>18, <1>19 DEF JobFits
<1>21. SplitsFit(job)'
  <2>1. \A i, j \in 1..Len(tasks) : i # j => tasks[i] # None /\ tasks[i] \cap tasks[j] = {}
    <3>1. CASE empty
      <4>1. tasks = <<{}>> /\ Len(<<{}>>) = 1
        BY <1>14, <3>1
      <4>2. \A i, j \in 1..1 : i = j
        OBVIOUS
      <4>3. QED
        BY <4>1, <4>2
    <3>2. CASE ~empty
      BY <1>10, <1>14, <3>2
    <3>3. QED
      BY <3>1, <3>2
  <2>2. \/ call.limit = 0
        \/ \A r \in found.base : Matches(r, s.predicate) =>
              \E n \in 1..Len(tasks) : InSplit(r, tasks[n])
    <3> SUFFICES ASSUME call.limit # 0, NEW r \in found.base, Matches(r, s.predicate)
                 PROVE  \E n \in 1..Len(tasks) : InSplit(r, tasks[n])
      OBVIOUS
    <3>1. PICK n \in 1..Len(cut) : InSplit(r, cut[n])
      BY <1>5, <1>7, <1>10
    <3>2. cut # <<>>
      BY <3>1
    <3>3. QED
      BY <1>14, <1>16, <3>1, <3>2
  <2>3. QED
    BY <1>17, <1>19, <2>1, <2>2 DEF SplitsFit
<1>22. ReadsFit(job)'
  <2> SUFFICES ASSUME NEW n \in 1..Len(tasks) PROVE ReadFits(job, job.splits[n], job.result[n])'
    BY <1>19 DEF ReadsFit
  <2>1. CASE empty
    <3>0. PICK blank \in Reads : blank = nothing
      BY <1>12
    <3>1. job'.splits[n] = {} /\ job'.result[n] = blank
      <4>1. tasks = <<{}>> /\ result = <<nothing>> /\ Len(<<{}>>) = 1
        BY <1>14, <2>1
      <4>2. n = 1
        BY <4>1
      <4>3. <<{}>>[1] = {} /\ <<nothing>>[1] = nothing
        OBVIOUS
      <4>4. QED
        BY <1>19, <3>0, <4>1, <4>2, <4>3
    <3>2. blank.rows = {} /\ blank.state = "read" /\ blank.columns = job'.schema
      BY <1>19, <3>0 DEF nothing
    <3>3. Share(job, {})' = {}
      BY NoneIsNoValue DEF Share, InSplit
    <3>4. Cardinality({}) = 0
      BY FS_EmptySet
    <3>5. job'.budget # None => job'.budget \in Nat
      BY <1>6, <1>19, BudgetIsNumber
    <3>6. Cardinality(Share(job, {}))' = 0
      BY <3>3, <3>4
    <3>7. ReadFits(job, {}, blank)'
      BY <3>2, <3>3, <3>4, <3>5, <3>6 DEF ReadFits, Smaller
    <3>8. QED
      BY <3>1, <3>7 DEF ReadFits, Share
  <2>2. CASE ~empty
    <3>1. job'.result[n] = Unread /\ job'.limit = job'.budget
      BY <1>14, <1>19, <2>2
    <3>2. Unread.rows = {} /\ Unread.state = "unread"
      BY DEF Unread
    <3>3. Cardinality({}) = 0
      BY FS_EmptySet
    <3>4. job'.budget # None => job'.budget \in Nat
      BY <1>6, <1>19, BudgetIsNumber
    <3>5. QED
      BY <3>1, <3>2, <3>3, <3>4 DEF ReadFits
  <2>3. QED
    BY <2>1, <2>2
<1>23. job' # None => JobFits(job)' /\ SplitsFit(job)' /\ ReadsFit(job)'
  BY <1>20, <1>21, <1>22
<1>24. QED
  BY <1>9, <1>23, WorkedKeeps DEF JobInv

-----------------------------------------------------------------------------
(* The invariant, and what follows from it.                                *)

LEMMA StutterIInv == ASSUME IInv, UNCHANGED vars PROVE IInv'
<1>1. UNCHANGED <<source, call, job>> /\ table' = table
  BY DEF vars
<1>2. table \in [columns : {InitialColumns, AlteredColumns}, rows : SUBSET Rows]
  BY DEF IInv, TypeOK
<1>3. QED
  BY <1>1, <1>2, TableKeeps

LEMMA NextIInv == IInv /\ [Next]_vars => IInv'
<1> SUFFICES ASSUME IInv, [Next]_vars PROVE IInv'
  OBVIOUS
<1>1. CASE UNCHANGED vars
  BY <1>1, StutterIInv
<1>2. ASSUME NEW n \in DOMAIN source, NEW c \in Conditions, ApplyPredicate(n, c) PROVE IInv'
  BY <1>2, ApplyPredicateKeeps
<1>3. ASSUME NEW n \in DOMAIN source, NEW map \in Projections, ApplyProjection(n, map) PROVE IInv'
  BY <1>3, ApplyProjectionKeeps
<1>4. ASSUME NEW n \in DOMAIN source, NEW p \in Parallelism, NEW limit \in RowLimits,
             GetReadTasks(n, p, limit)
      PROVE  IInv'
  BY <1>4, GetReadTasksKeeps
<1>5. CASE Describe
  BY <1>5, DescribeKeeps
<1>6. CASE QueryPlan
  BY <1>6, QueryPlanKeeps
<1>7. CASE QueryPlanUnavailable
  BY <1>7, QueryPlanUnavailableKeeps
<1>8. CASE DiscoveryFails
  BY <1>8, CalledKeeps DEF DiscoveryFails
<1>9. CASE MakeTasks
  BY <1>9, MakeTasksKeeps
<1>10. ASSUME job # None, NEW i \in DOMAIN job.splits, ReadSplit(i) PROVE IInv'
  BY <1>10, ReadSplitKeeps
<1>11. ASSUME job # None, NEW i \in DOMAIN job.splits, ReadFails(i) PROVE IInv'
  BY <1>11, ReadFailsKeeps
<1>12. ASSUME NEW r \in Rows, Insert(r) PROVE IInv'
  BY <1>12, InsertKeeps
<1>13. CASE Alter
  BY <1>13, AlterKeeps
<1>14. QED
  BY <1>1, <1>2, <1>3, <1>4, <1>5, <1>6, <1>7, <1>8, <1>9, <1>10, <1>11, <1>12, <1>13 DEF Next

\* The inductive invariant holds of every behaviour of the datasource.
THEOREM DatasourceInvariant == Spec => []IInv
<1>1. QED
  BY InitIInv, NextIInv, PTL DEF Spec

\* What the tasks have read when every one has, the table as it was at discovery.
LEMMA UndisturbedRead ==
  ASSUME IInv, job # None, table.rows = job.base, AllRead
  PROVE  LET read == UNION {RowsOf(i) : i \in DOMAIN job.splits}
         IN  IF job.budget = None THEN read = Wanted
             ELSE Cardinality(read) >= Smaller(job.budget, Cardinality(Wanted))
<1>1. JobFits(job) /\ SplitsFit(job) /\ ReadsFit(job)
  BY DEF IInv, JobInv
<1>2. /\ job \in Jobs /\ job.splits \in Seq({None} \cup SUBSET Tablets)
      /\ DOMAIN job.splits = 1..Len(job.splits)
  BY <1>1 DEF JobFits, Jobs
<1> DEFINE read == UNION {RowsOf(i) : i \in DOMAIN job.splits}
           share(i) == Share(job, job.splits[i])
<1>3. Wanted = {r \in job.base : Matches(r, job.predicate)} /\ Wanted \in SUBSET Rows
  BY <1>1, <1>2 DEF Wanted, JobFits, IInv, SourcesFit, Fitting, Jobs
<1>4. \A i \in DOMAIN job.splits :
         /\ RowsOf(i) \subseteq share(i) /\ share(i) \in SUBSET Rows /\ RowsOf(i) \subseteq Wanted
         /\ IF job.budget = None THEN share(i) \subseteq RowsOf(i)
            ELSE Cardinality(RowsOf(i)) >= Smaller(job.budget, Cardinality(share(i)))
  BY <1>1, <1>2, <1>3 DEF ReadsFit, ReadFits, Share, RowsOf, AllRead, Jobs
<1>5. job.budget # 0 => \A r \in Wanted : \E i \in DOMAIN job.splits : r \in share(i)
  BY <1>1, <1>2, <1>3 DEF SplitsFit, Share
<1> HIDE DEF share
<1>6. read \subseteq Wanted
  BY <1>4
<1>7. (\A i \in DOMAIN job.splits : share(i) \subseteq RowsOf(i)) /\ job.budget # 0 => read = Wanted
  <2> SUFFICES ASSUME \A i \in DOMAIN job.splits : share(i) \subseteq RowsOf(i), job.budget # 0,
                      NEW r \in Wanted
               PROVE  r \in read
    BY <1>6
  <2>1. PICK i \in DOMAIN job.splits : r \in share(i)
    BY <1>5
  <2>2. QED
    BY <2>1
<1>8. CASE job.budget = None
  BY <1>4, <1>7, <1>8, NoneIsNoValue
<1>9. CASE job.budget # None
  <2>1. job.budget \in Nat
    BY <1>2, <1>9, BudgetIsNumber DEF Jobs
  <2>2. Cardinality(Wanted) \in Nat
    BY <1>3, RowsFinite
  <2>3. read \in SUBSET Rows
    BY <1>3, <1>6
  <2>4. Cardinality(read) \in Nat
    BY <2>3, RowsFinite
  <2>5. CASE job.budget = 0
    BY <1>9, <2>1, <2>2, <2>4, <2>5 DEF Smaller
  <2>6. CASE \E i \in DOMAIN job.splits : Cardinality(RowsOf(i)) >= job.budget
    <3>1. PICK i \in DOMAIN job.splits : Cardinality(RowsOf(i)) >= job.budget
      BY <2>6
    <3>2. RowsOf(i) \in SUBSET read
      OBVIOUS
    <3>3. RowsOf(i) \in SUBSET Rows
      BY <2>3, <3>2
    <3>4. Cardinality(RowsOf(i)) <= Cardinality(read) /\ Cardinality(RowsOf(i)) \in Nat
      BY <2>3, <3>2, <3>3, RowsCount, RowsFinite
    <3> HIDE DEF read
    <3>5. QED
      BY <1>9, <2>1, <2>2, <2>4, <3>1, <3>4 DEF Smaller, read
  <2>7. CASE job.budget # 0 /\ \A i \in DOMAIN job.splits : ~(Cardinality(RowsOf(i)) >= job.budget)
    <3>1. ASSUME NEW i \in DOMAIN job.splits PROVE share(i) \subseteq RowsOf(i)
      <4>1. RowsOf(i) \in SUBSET share(i) /\ share(i) \in SUBSET Rows
        BY <1>4
      <4>2. RowsOf(i) \in SUBSET Rows
        BY <4>1
      <4>3. /\ Cardinality(RowsOf(i)) \in Nat /\ Cardinality(share(i)) \in Nat
            /\ Cardinality(RowsOf(i)) <= Cardinality(share(i))
            /\ Cardinality(RowsOf(i)) = Cardinality(share(i)) => RowsOf(i) = share(i)
        BY <4>1, <4>2, RowsCount, RowsFinite
      <4>4. /\ Cardinality(RowsOf(i)) >= Smaller(job.budget, Cardinality(share(i)))
            /\ ~(Cardinality(RowsOf(i)) >= job.budget)
        BY <1>4, <1>9, <2>7
      <4>5. Cardinality(RowsOf(i)) = Cardinality(share(i))
        BY <2>1, <4>3, <4>4 DEF Smaller
      <4>6. QED
        BY <4>3, <4>5
    <3>2. read = Wanted
      BY <1>7, <2>7, <3>1
    <3> HIDE DEF read
    <3>3. QED
      BY <1>9, <2>1, <2>2, <3>2 DEF Smaller, read
  <2>8. QED
    BY <2>5, <2>6, <2>7
<1>10. QED
  BY <1>8, <1>9

LEMMA IInvReadIsTheQuery == IInv => ReadIsTheQuery
<1> SUFFICES ASSUME IInv, job # None
             PROVE  /\ \A i, j \in DOMAIN job.splits : i # j => RowsOf(i) \cap RowsOf(j) = {}
                    /\ \A i \in DOMAIN job.splits :
                          /\ \A r \in RowsOf(i) : Matches(r, source[job.source].asked)
                          /\ job.budget # None => Cardinality(RowsOf(i)) <= job.budget
  BY UndisturbedRead DEF ReadIsTheQuery
<1>1. JobFits(job) /\ SplitsFit(job) /\ ReadsFit(job)
  BY DEF IInv, JobInv
<1>2. job \in Jobs /\ DOMAIN job.splits = 1..Len(job.splits)
  BY <1>1 DEF JobFits, Jobs
<1>3. source[job.source].asked = job.predicate
  BY <1>1 DEF JobFits, IInv, SourcesFit, Fitting
<1>4. ASSUME NEW i \in DOMAIN job.splits, NEW j \in DOMAIN job.splits, i # j
      PROVE  RowsOf(i) \cap RowsOf(j) = {}
  <2> SUFFICES ASSUME NEW r \in RowsOf(i), r \in RowsOf(j) PROVE FALSE
    OBVIOUS
  <2>1. InSplit(r, job.splits[i]) /\ InSplit(r, job.splits[j])
    BY <1>1, <1>2 DEF ReadsFit, ReadFits, RowsOf
  <2>2. job.splits[i] # None /\ job.splits[j] # None /\ job.splits[i] \cap job.splits[j] = {}
    BY <1>1, <1>2, <1>4 DEF SplitsFit
  <2>3. QED
    BY <2>1, <2>2 DEF InSplit
<1>5. ASSUME NEW i \in DOMAIN job.splits
      PROVE  /\ \A r \in RowsOf(i) : Matches(r, source[job.source].asked)
             /\ job.budget # None => Cardinality(RowsOf(i)) <= job.budget
  BY <1>1, <1>2, <1>3 DEF ReadsFit, ReadFits, RowsOf
<1>6. QED
  BY <1>4, <1>5

\* The tasks planned from a discovery are together the query Ray asked for: no row comes
\* twice, none in spite of a condition, no task goes over the budget, and as long as the
\* table stays as it was discovered no row is missing.
THEOREM ReadIsTheQuerySafe == Spec => []ReadIsTheQuery
<1>1. QED
  BY DatasourceInvariant, IInvReadIsTheQuery, PTL

LEMMA IInvBlocks == IInv => BlocksAreTheProjection
<1> SUFFICES ASSUME IInv, job # None
             PROVE  /\ source[job.source].projection # None => job.schema = source[job.source].projection
                    /\ \A i \in DOMAIN job.splits :
                          job.result[i].state = "read" => job.result[i].columns = job.schema
  BY DEF BlocksAreTheProjection, IInv
<1>1. JobFits(job) /\ ReadsFit(job)
  BY DEF IInv, JobInv
<1>2. DOMAIN job.splits = 1..Len(job.splits)
  BY <1>1 DEF JobFits, Jobs
<1>3. QED
  BY <1>1, <1>2 DEF JobFits, ReadsFit, ReadFits

\* The schema Ray is told, and every block a reader delivers, are the projection it asked
\* for, whatever became of the table's columns since they were described.
THEOREM BlocksAreTheProjectionSafe == Spec => []BlocksAreTheProjection
<1>1. QED
  BY DatasourceInvariant, IInvBlocks, PTL

\* A source is the same but for a first discovery.
Same(n) ==
    /\ n \in DOMAIN source'
    /\ source[n].snapshot # None => source'[n] = source[n]
    /\ [source'[n] EXCEPT !.snapshot = None] = [source[n] EXCEPT !.snapshot = None]

LEMMA DerivedSame ==
  ASSUME IInv, NEW new, source' = Append(source, new) PROVE \A n \in DOMAIN source : Same(n)
<1>1. source \in Seq(Sources)
  BY DEF IInv, TypeOK
<1>2. \A n \in DOMAIN source : n \in DOMAIN source' /\ source'[n] = source[n]
  BY <1>1
<1>3. QED
  BY <1>2 DEF Same

LEMMA DiscoveredSame ==
  ASSUME IInv, NEW schema, NEW tablets, Discovered(schema, tablets),
         call # None, call.step \in {"describe", "query_plan"}
  PROVE  \A n \in DOMAIN source : Same(n)
<1>1. source \in Seq(Sources)
  BY DEF IInv, TypeOK
<1>2. PICK m \in DOMAIN source : m = call.source /\ source[m].snapshot = None
  BY DEF IInv, CallFits
<1> DEFINE found == [schema |-> schema, tablets |-> tablets, base |-> table.rows]
<1>3. source' = [source EXCEPT ![m] = [source[m] EXCEPT !.snapshot = found]]
  BY <1>2 DEF Discovered
<1>4. DOMAIN source' = DOMAIN source
  BY <1>3
<1>5. ASSUME NEW n \in DOMAIN source, n # m PROVE Same(n)
  BY <1>3, <1>4, <1>5 DEF Same
<1>6. Same(m)
  <2>1. source[m] \in Sources
    BY <1>1, <1>2
  <2>2. source'[m] = [source[m] EXCEPT !.snapshot = found]
    BY <1>2, <1>3
  <2>3. [[source[m] EXCEPT !.snapshot = found] EXCEPT !.snapshot = None]
           = [source[m] EXCEPT !.snapshot = None]
    BY <2>1 DEF Sources
  <2>4. QED
    BY <1>2, <1>4, <2>2, <2>3 DEF Same
<1>7. QED
  BY <1>5, <1>6

LEMMA NextSame == IInv /\ [Next]_vars => [\A n \in DOMAIN source : Same(n)]_source
<1> SUFFICES ASSUME IInv, Next, source' # source PROVE \A n \in DOMAIN source : Same(n)
  BY DEF vars
<1>1. ASSUME NEW n \in DOMAIN source, NEW c \in Conditions, ApplyPredicate(n, c)
      PROVE  \A k \in DOMAIN source : Same(k)
  BY <1>1, DerivedSame DEF ApplyPredicate
<1>2. ASSUME NEW n \in DOMAIN source, NEW map \in Projections, ApplyProjection(n, map)
      PROVE  \A k \in DOMAIN source : Same(k)
  BY <1>2, DerivedSame DEF ApplyProjection
<1>3. CASE Describe
  <2>1. PICK schema : Discovered(schema, None)
    BY <1>3 DEF Describe
  <2>2. call # None /\ call.step = "describe"
    BY <1>3 DEF Describe
  <2>3. QED
    BY <2>1, <2>2, DiscoveredSame
<1>4. CASE QueryPlan
  <2>1. PICK tablets : Discovered(call.schema, tablets)
    BY <1>4 DEF QueryPlan
  <2>2. call # None /\ call.step = "query_plan"
    BY <1>4 DEF QueryPlan
  <2>3. QED
    BY <2>1, <2>2, DiscoveredSame
<1>5. CASE QueryPlanUnavailable
  BY <1>5, DiscoveredSame DEF QueryPlanUnavailable
<1>6. QED
  BY <1>1, <1>2, <1>3, <1>4, <1>5
  DEF Next, GetReadTasks, DiscoveryFails, MakeTasks, ReadSplit, ReadFails, Insert, Alter

\* Dataset branches keep their own state: deriving a source from another, planning and
\* reading leave every source as it is, but for a discovery where there was none.
THEOREM BranchesAreIndependentSafe == Spec => BranchesAreIndependent
<1>1. [][\A n \in DOMAIN source : Same(n)]_source <=> BranchesAreIndependent
  BY DEF Same, BranchesAreIndependent
<1>2. QED
  BY <1>1, DatasourceInvariant, NextSame, PTL DEF Spec

-----------------------------------------------------------------------------
(* The loop of group_tablets.  Datasource uses its result in closed form;   *)
(* TabletGroups models its turns, here for any tablets, size and hint.      *)

\* Products of naturals grow with a factor.
LEMMA ProductMonotone ==
    ASSUME NEW a \in Nat, NEW b \in Nat, NEW c \in Nat, a <= b
    PROVE  a * c <= b * c
  BY SMT

\* The number of groups of tablet_size tablets: enough for all, and no more
\* than there are tablets.
LEMMA CeilDivBounds ==
    ASSUME NEW n \in Nat, NEW s \in Nat, n > 0, s > 0
    PROVE  /\ CeilDiv(n, s) \in 1..n
           /\ CeilDiv(n, s) * s >= n
  <1> DEFINE m == n + s - 1
             q == m \div s
  <1>1. m \in Nat
    BY SMT
  <1>2. q \in Nat /\ m % s \in 0..(s - 1) /\ m = s * q + (m % s)
    BY <1>1, DivMod
  <1> HIDE DEF q
  <1>3. s * q >= n
    BY <1>2, SMT
  <1>4. q >= 1
    BY <1>2, <1>3, SMT
  <1>5. q <= n
    <2>1. SUFFICES ASSUME q >= n + 1 PROVE FALSE
      BY <1>2
    <2>2. (n + 1) * s <= q * s
      BY <1>2, <2>1, ProductMonotone
    <2>3. (n + 1) * s = n * s + s /\ q * s = s * q
      BY <1>2, SMT
    <2>4. 1 * n <= s * n
      BY ProductMonotone
    <2> QED
      BY <1>2, <2>2, <2>3, <2>4, SMT
  <1> QED
    BY <1>2, <1>3, <1>4, <1>5, SMT DEF CeilDiv, q

-----------------------------------------------------------------------------

\* The inputs and what Start computes of them.
Computed ==
    /\ groupCount \in Nat /\ baseSize \in Nat /\ largerGroups \in Nat
    /\ groupCount \in 1..numTablets
    /\ groupCount <= parallelism
    /\ baseSize >= 1
    /\ largerGroups < groupCount
    /\ numTablets = groupCount * baseSize + largerGroups
    /\ groupCount < parallelism => numTablets <= groupCount * tabletSize

\* The groups so far cover the tablets before offset, which the loop only adds up.
Covered ==
    /\ groupIndex \in 0..groupCount
    /\ Len(splits) = groupIndex
    /\ offset = groupIndex * baseSize + Lesser(groupIndex, largerGroups)
    /\ offset = IF groupIndex = 0 THEN 0 ELSE End(splits[groupIndex])
    /\ \A i \in 1..groupIndex :
          /\ splits[i].first = IF i = 1 THEN 0 ELSE End(splits[i - 1])
          /\ splits[i].tablets \in {baseSize, baseSize + 1}
          /\ splits[i].tablets = baseSize + 1 => largerGroups > 0

LoopInv ==
    /\ numTablets \in Nat
    /\ tabletSize \in Nat /\ tabletSize > 0
    /\ parallelism \in Nat /\ parallelism > 0
    /\ pc \in {"start", "loop", "done"}
    /\ groupIndex \in Nat /\ offset \in Nat
    /\ splits \in Seq([first : Nat, tablets : Nat])
    /\ pc = "start" => groupCount = 0 /\ groupIndex = 0 /\ offset = 0 /\ splits = <<>>
    /\ pc = "done" /\ numTablets = 0 => groupCount = 0 /\ splits = <<>>
    /\ pc = "loop" => numTablets > 0
    /\ pc # "start" /\ numTablets > 0 => Computed /\ Covered
    /\ pc = "done" /\ numTablets > 0 => groupIndex = groupCount

LEMMA LoopInit == GroupsInit => LoopInv
  BY SMT DEF GroupsInit, LoopInv

\* What the three numbers of group_tablets tell about each other.
LEMMA GroupNumbers ==
    ASSUME NEW n \in Nat, NEW s \in Nat, NEW p \in Nat, n > 0, s > 0, p > 0,
           NEW c, NEW b, NEW r,
           c = Lesser(p, CeilDiv(n, s)), b = n \div c, r = n % c
    PROVE  /\ c \in Nat /\ b \in Nat /\ r \in Nat
           /\ c \in 1..n /\ c <= p /\ b >= 1 /\ r < c
           /\ n = c * b + r
           /\ c < p => n <= c * s
  <1> DEFINE wanted == CeilDiv(n, s)
  <1>1. wanted \in 1..n /\ wanted * s >= n
    BY CeilDivBounds
  <1>2. c = Lesser(p, wanted)
    OBVIOUS
  <1> HIDE DEF wanted
  <1>3. c \in Nat /\ c \in 1..n /\ c <= p /\ (c < p => n <= c * s)
    BY <1>1, <1>2, SMT DEF Lesser
  <1>4. c > 0
    BY <1>3, SMT
  <1>5. b \in Nat /\ r \in 0..(c - 1) /\ n = c * b + r
    BY <1>3, <1>4, DivMod
  <1>6. r \in Nat /\ r < c
    BY <1>3, <1>5, SMT
  <1>7. b # 0
    BY <1>3, <1>5, <1>6, SMT
  <1> QED
    BY <1>3, <1>5, <1>6, <1>7, SMT

\* Nothing is covered before the first turn of the loop.
LEMMA NothingCovered ==
    ASSUME NEW b \in Nat, NEW r \in Nat
    PROVE  0 = 0 * b + Lesser(0, r)
  BY SMT DEF Lesser

LEMMA LoopStart == LoopInv /\ Start => LoopInv'
  <1> SUFFICES ASSUME LoopInv, Start PROVE LoopInv'
    OBVIOUS
  <1>1. CASE numTablets = 0
    BY <1>1, SMT DEF LoopInv, Start, inputs
  <1>2. CASE numTablets # 0
    <2>1. /\ numTablets \in Nat /\ tabletSize \in Nat /\ parallelism \in Nat
          /\ numTablets > 0 /\ tabletSize > 0 /\ parallelism > 0
          /\ numTablets' = numTablets /\ tabletSize' = tabletSize
          /\ parallelism' = parallelism
          /\ groupIndex' = 0 /\ offset' = 0 /\ splits' = <<>> /\ pc' = "loop"
      BY <1>2, SMT DEF LoopInv, Start, inputs
    <2>2. /\ groupCount' = Lesser(parallelism, CeilDiv(numTablets, tabletSize))
          /\ baseSize' = numTablets \div groupCount'
          /\ largerGroups' = numTablets % groupCount'
      BY <1>2 DEF Start
    <2>3. Computed'
      <3> DEFINE c == groupCount'
                 b == baseSize'
                 r == largerGroups'
      <3>1. /\ c = Lesser(parallelism, CeilDiv(numTablets, tabletSize))
            /\ b = numTablets \div c /\ r = numTablets % c
        BY <2>2
      <3> HIDE DEF c, b, r
      <3>2. /\ c \in Nat /\ b \in Nat /\ r \in Nat
            /\ c \in 1..numTablets /\ c <= parallelism /\ b >= 1 /\ r < c
            /\ numTablets = c * b + r
            /\ c < parallelism => numTablets <= c * tabletSize
        BY <2>1, <3>1, GroupNumbers
      <3> QED
        BY <2>1, <3>2, Zenon DEF Computed, c, b, r
    <2>4. Covered'
      <3>1. 0 = 0 * baseSize' + Lesser(0, largerGroups')
        BY <2>3, NothingCovered DEF Computed
      <3>2. 0 \in 0..groupCount' /\ 1..0 = {} /\ Len(<<>>) = 0
        BY <2>3, SMT DEF Computed
      <3> QED
        BY <2>1, <3>1, <3>2 DEF Covered
    <2> QED
      BY <2>1, <2>3, <2>4, SMT DEF LoopInv
  <1> QED
    BY <1>1, <1>2

LEMMA LoopGroup == LoopInv /\ Group => LoopInv'
  <1> SUFFICES ASSUME LoopInv, Group PROVE LoopInv'
    OBVIOUS
  <1> USE DEF Group, inputs
  <1> DEFINE group == [first |-> offset, tablets |-> GroupSize]
  <1>1. Computed /\ Covered /\ groupIndex < groupCount /\ pc = "loop" /\ numTablets > 0
    BY DEF LoopInv
  <1>2. /\ GroupSize \in Nat
        /\ GroupSize \in {baseSize, baseSize + 1}
        /\ GroupSize = baseSize + 1 => largerGroups > 0
    BY <1>1, SMT DEF GroupSize, Computed, LoopInv
  <1>3. group \in [first : Nat, tablets : Nat]
    BY <1>2 DEF LoopInv
  <1>4. splits' = Append(splits, group)
    OBVIOUS
  <1>5. /\ splits' \in Seq([first : Nat, tablets : Nat])
        /\ Len(splits') = groupIndex + 1
        /\ \A i \in 1..groupIndex : splits'[i] = splits[i]
        /\ splits'[groupIndex + 1] = group
    BY <1>1, <1>3, <1>4 DEF LoopInv, Covered
  <1>6. offset' \in Nat /\ offset' = End(splits'[groupIndex'])
    BY <1>2, <1>5, SMT DEF LoopInv, End
  <1>7. offset' = groupIndex' * baseSize + Lesser(groupIndex', largerGroups)
    <2>1. (groupIndex + 1) * baseSize = groupIndex * baseSize + baseSize
      BY <1>1, SMT DEF LoopInv, Computed
    <2> DEFINE product == groupIndex * baseSize
    <2>2. product \in Nat
      BY <1>1, SMT DEF LoopInv, Computed
    <2>3. offset = product + Lesser(groupIndex, largerGroups)
      BY <1>1 DEF Covered
    <2>4. (groupIndex + 1) * baseSize = product + baseSize
      BY <2>1
    <2> HIDE DEF product
    <2> QED
      BY <1>1, <2>2, <2>3, <2>4, SMT DEF GroupSize, Lesser, LoopInv, Computed
  <1>8. ASSUME NEW i \in 1..(groupIndex + 1)
        PROVE  /\ splits'[i].first = IF i = 1 THEN 0 ELSE End(splits'[i - 1])
               /\ splits'[i].tablets \in {baseSize, baseSize + 1}
               /\ splits'[i].tablets = baseSize + 1 => largerGroups > 0
    <2>1. CASE i \in 1..groupIndex
      <3>1. i = 1 \/ i - 1 \in 1..groupIndex
        BY <2>1, SMT DEF LoopInv
      <3> QED
        BY <1>1, <1>5, <2>1, <3>1 DEF Covered
    <2>2. CASE i = groupIndex + 1
      <3>1. splits'[i] = group
        BY <1>5, <2>2
      <3>2. groupIndex = 0 <=> i = 1
        BY <2>2, SMT DEF LoopInv
      <3>3. groupIndex # 0 => i - 1 = groupIndex /\ groupIndex \in 1..groupIndex
        BY <2>2, SMT DEF LoopInv
      <3>4. offset = IF i = 1 THEN 0 ELSE End(splits'[i - 1])
        BY <1>1, <1>5, <3>2, <3>3 DEF Covered
      <3>5. group.first = offset /\ group.tablets = GroupSize
        OBVIOUS
      <3> QED
        BY <1>2, <3>1, <3>4, <3>5, Zenon
    <2>3. i \in 1..groupIndex \/ i = groupIndex + 1
      BY SMT DEF LoopInv
    <2> QED
      BY <2>1, <2>2, <2>3
  <1>9. Covered'
    <2>1. groupIndex' = groupIndex + 1 /\ groupIndex' \in 0..groupCount'
      BY <1>1, SMT DEF LoopInv, Computed
    <2>2. groupIndex' # 0
      BY <2>1, SMT DEF LoopInv
    <2> QED
      BY <1>5, <1>6, <1>7, <1>8, <2>1, <2>2 DEF Covered
  <1>10. Computed'
    BY <1>1 DEF Computed
  <1> QED
    BY <1>1, <1>5, <1>6, <1>9, <1>10, SMT DEF LoopInv

\* Every reachable state satisfies LoopInv.
LEMMA LoopInvariance == GroupsSpec => []LoopInv
  <1>1. LoopInv /\ [GroupsNext]_groupsVars => LoopInv'
    <2> SUFFICES ASSUME LoopInv, [GroupsNext]_groupsVars PROVE LoopInv'
      OBVIOUS
    <2>1. CASE Start
      BY <2>1, LoopStart
    <2>2. CASE Group
      BY <2>2, LoopGroup
    <2>3. CASE EndLoop
      BY <2>3, SMT DEF EndLoop, LoopInv, Computed, Covered, End, inputs
    <2>4. CASE UNCHANGED groupsVars
      BY <2>4, SMT DEF groupsVars, LoopInv, Computed, Covered, End, inputs
    <2> QED
      BY <2>1, <2>2, <2>3, <2>4 DEF GroupsNext, Finished
  <1> QED
    BY LoopInit, <1>1, PTL DEF GroupsSpec

\* group_tablets puts every tablet of a plan into exactly one non-empty group,
\* for any number of tablets, tablet_size and parallelism.
THEOREM EveryTabletOnceSafe == GroupsSpec => []EveryTabletOnce
  <1>1. LoopInv => EveryTabletOnce
    <2> SUFFICES ASSUME LoopInv PROVE EveryTabletOnce
      OBVIOUS
    <2>1. CASE pc = "start" \/ numTablets = 0
      <3>1. splits = <<>> /\ (pc = "done" => numTablets = 0)
        BY <2>1, SMT DEF LoopInv
      <3> QED
        BY <3>1 DEF EveryTabletOnce
    <2>2. CASE pc # "start" /\ numTablets # 0
      <3>1. Computed /\ Covered /\ DOMAIN splits = 1..groupIndex
        BY <2>2, SMT DEF LoopInv, Covered
      <3>2. \A i \in DOMAIN splits :
              /\ splits[i].tablets > 0
              /\ splits[i].first = IF i = 1 THEN 0 ELSE End(splits[i - 1])
        BY <3>1, SMT DEF Computed, Covered
      <3>3. ASSUME pc = "done"
            PROVE  splits # <<>> /\ End(splits[Len(splits)]) = numTablets
        <4>1. groupIndex = groupCount /\ groupCount > 0 /\ Len(splits) = groupCount
          BY <2>2, <3>1, <3>3, SMT DEF LoopInv, Computed, Covered
        <4>2. offset = groupCount * baseSize + largerGroups
          BY <3>1, <4>1, SMT DEF Computed, Covered, Lesser
        <4> QED
          BY <3>1, <4>1, <4>2, SMT DEF Computed, Covered
      <3> QED
        BY <2>2, <3>2, <3>3 DEF EveryTabletOnce
    <2> QED
      BY <2>1, <2>2
  <1> QED
    BY LoopInvariance, <1>1, PTL

\* The groups of a plan keep to Ray's hint, are even, and keep to tablet_size
\* unless the hint forces more tablets into each.
THEOREM WithinHintSafe == GroupsSpec => []WithinHint
  <1>1. LoopInv => WithinHint
    <2> SUFFICES ASSUME LoopInv PROVE WithinHint
      OBVIOUS
    <2>1. CASE pc = "start" \/ numTablets = 0
      <3>1. splits = <<>> /\ parallelism > 0
        BY <2>1, SMT DEF LoopInv
      <3> QED
        BY <3>1, SMT DEF WithinHint, LoopInv
    <2>2. CASE pc # "start" /\ numTablets # 0
      <3>1. Computed /\ Covered /\ DOMAIN splits = 1..groupIndex
        BY <2>2, SMT DEF LoopInv, Covered
      <3>5. /\ baseSize \in Nat /\ largerGroups \in Nat /\ groupCount \in Nat
            /\ tabletSize \in Nat /\ parallelism \in Nat
            /\ Len(splits) = groupIndex /\ groupIndex \in 0..groupCount
            /\ groupCount > 0 /\ groupCount <= parallelism
        BY <3>1, SMT DEF LoopInv, Computed, Covered
      <3>2. ASSUME groupCount < parallelism, NEW i \in DOMAIN splits
            PROVE  splits[i].tablets <= tabletSize
        <4>1. groupCount * baseSize + largerGroups <= groupCount * tabletSize
          BY <3>1, <3>2 DEF Computed
        <4> DEFINE n == splits[i].tablets
        <4>2. /\ n = baseSize \/ n = baseSize + 1
              /\ n = baseSize + 1 => largerGroups > 0
          BY <3>1 DEF Covered
        <4> HIDE DEF n
        <4>3. SUFFICES ASSUME tabletSize + 1 <= n PROVE FALSE
          BY <3>5, <4>2, SMT DEF n
        <4>4. CASE tabletSize = baseSize
          BY <3>5, <4>1, <4>2, <4>3, <4>4, SMT
        <4>5. CASE tabletSize + 1 <= baseSize
          <5>1. (tabletSize + 1) * groupCount <= baseSize * groupCount
            BY <3>5, <4>5, ProductMonotone, SMT
          <5> QED
            BY <3>5, <4>1, <5>1, SMT
        <4> QED
          BY <3>5, <4>2, <4>3, <4>4, <4>5, SMT
      <3>3. Len(splits) <= parallelism
        BY <3>5, SMT
      <3>4. ASSUME NEW i \in DOMAIN splits, NEW j \in DOMAIN splits
            PROVE  splits[i].tablets <= splits[j].tablets + 1
        <4>1. /\ splits[i].tablets = baseSize \/ splits[i].tablets = baseSize + 1
              /\ splits[j].tablets = baseSize \/ splits[j].tablets = baseSize + 1
          BY <3>1 DEF Covered
        <4> QED
          BY <3>5, <4>1, SMT
      <3> QED
        BY <3>2, <3>3, <3>4 DEF WithinHint
    <2> QED
      BY <2>1, <2>2
  <1> QED
    BY LoopInvariance, <1>1, PTL

\* The numbers of the loop, and the first tablet and the end of every group by them.
ByNumbers ==
    pc # "start" /\ numTablets > 0 =>
        /\ groupCount = Smaller(parallelism, (numTablets + tabletSize - 1) \div tabletSize)
        /\ baseSize = numTablets \div groupCount
        /\ largerGroups = numTablets % groupCount
        /\ \A i \in 1..groupIndex :
              /\ splits[i].first = (i - 1) * baseSize + Smaller(i - 1, largerGroups)
              /\ End(splits[i]) = i * baseSize + Smaller(i, largerGroups)

LEMMA LoopByNumbers == GroupsSpec => []ByNumbers
  <1>1. GroupsInit => ByNumbers
    BY DEF GroupsInit, ByNumbers
  <1>2. LoopInv /\ LoopInv' /\ ByNumbers /\ [GroupsNext]_groupsVars => ByNumbers'
    <2> SUFFICES ASSUME LoopInv, LoopInv', ByNumbers, [GroupsNext]_groupsVars,
                        pc' # "start", numTablets' > 0
                 PROVE  /\ groupCount' = Smaller(parallelism',
                                            (numTablets' + tabletSize' - 1) \div tabletSize')
                        /\ baseSize' = numTablets' \div groupCount'
                        /\ largerGroups' = numTablets' % groupCount'
                        /\ \A i \in 1..groupIndex' :
                              /\ splits'[i].first = (i - 1) * baseSize' + Smaller(i - 1, largerGroups')
                              /\ End(splits'[i]) = i * baseSize' + Smaller(i, largerGroups')
      BY DEF ByNumbers, Smaller, End
    <2>1. CASE Start
      <3>1. numTablets # 0 /\ groupIndex' = 0
        BY <2>1 DEF Start, inputs, LoopInv
      <3> QED
        BY <2>1, <3>1 DEF Start, inputs, Lesser, Smaller, CeilDiv
    <2>2. CASE Group
      <3>1. /\ Computed /\ Covered /\ pc = "loop" /\ numTablets > 0
            /\ groupIndex \in Nat /\ groupIndex' = groupIndex + 1
            /\ UNCHANGED <<numTablets, tabletSize, parallelism, groupCount, baseSize, largerGroups>>
            /\ splits' = Append(splits, [first |-> offset, tablets |-> GroupSize])
            /\ offset' = offset + GroupSize
        BY <2>2 DEF Group, inputs, LoopInv
      <3>2. Covered'
        BY <3>1, <2>2 DEF LoopInv, Group
      <3>3. /\ splits \in Seq([first : Nat, tablets : Nat]) /\ Len(splits) = groupIndex
            /\ splits' \in Seq([first : Nat, tablets : Nat]) /\ Len(splits') = groupIndex + 1
        BY <3>1, <3>2 DEF LoopInv, Covered
      <3>4. /\ \A i \in 1..groupIndex : splits'[i] = splits[i]
            /\ splits'[groupIndex + 1] = [first |-> offset, tablets |-> GroupSize]
        BY <3>1, <3>3
      <3>5. /\ offset = groupIndex * baseSize + Smaller(groupIndex, largerGroups)
            /\ offset' = (groupIndex + 1) * baseSize + Smaller(groupIndex + 1, largerGroups)
        BY <3>1, <3>2 DEF Covered, Lesser, Smaller
      <3>6. ASSUME NEW i \in 1..(groupIndex + 1)
            PROVE  /\ splits'[i].first = (i - 1) * baseSize + Smaller(i - 1, largerGroups)
                   /\ End(splits'[i]) = i * baseSize + Smaller(i, largerGroups)
        <4>1. CASE i \in 1..groupIndex
          <5>1. /\ splits[i].first = (i - 1) * baseSize + Smaller(i - 1, largerGroups)
                /\ End(splits[i]) = i * baseSize + Smaller(i, largerGroups)
            BY <3>1, <4>1 DEF ByNumbers
          <5> QED
            BY <3>4, <4>1, <5>1
        <4>2. CASE i = groupIndex + 1
          <5>1. i - 1 = groupIndex
            BY <3>1, <4>2
          <5>2. splits'[i] = [first |-> offset, tablets |-> GroupSize]
            BY <3>4, <4>2
          <5>3. splits'[i].first = offset /\ splits'[i].tablets = GroupSize
            BY <5>2
          <5>4. End(splits'[i]) = splits'[i].first + splits'[i].tablets
            BY DEF End
          <5>5. End(splits'[i]) = offset'
            BY <3>1, <5>3, <5>4
          <5>6. splits'[i].first = (i - 1) * baseSize + Smaller(i - 1, largerGroups)
            BY <3>5, <5>1, <5>3
          <5>7. End(splits'[i]) = i * baseSize + Smaller(i, largerGroups)
            BY <3>5, <4>2, <5>5
          <5> QED
            BY <5>6, <5>7
        <4>3. i \in 1..groupIndex \/ i = groupIndex + 1
          BY <3>1
        <4> QED
          BY <4>1, <4>2, <4>3
      <3> QED
        BY <3>1, <3>6 DEF ByNumbers
    <2>3. CASE EndLoop
      BY <2>3 DEF EndLoop, inputs, ByNumbers, LoopInv
    <2>4. CASE UNCHANGED groupsVars
      BY <2>4 DEF groupsVars, inputs, ByNumbers
    <2> QED
      BY <2>1, <2>2, <2>3, <2>4 DEF GroupsNext, Finished
  <1> QED
    BY <1>1, <1>2, LoopInvariance, PTL DEF GroupsSpec

\* The tablets of the groups the loop made of the tablets of a plan, which
\* group_tablets sorts.
GroupsOfLoop(tablets) ==
    [i \in 1..Len(splits) |->
        {t \in tablets : /\ Cardinality({u \in tablets : u < t}) >= splits[i].first
                         /\ Cardinality({u \in tablets : u < t}) < End(splits[i])}]

\* When the loop of group_tablets ends, its groups are those Datasource makes its
\* tasks of: the closed form is the loop, for any tablets, tablet_size and hint.
THEOREM LoopIsGroupTablets ==
    ASSUME NEW tablets \in SUBSET Tablets
    PROVE  GroupsSpec => [](pc = "done" /\ numTablets = Cardinality(tablets) /\ tabletSize = TabletSize
                               => GroupTablets(tablets, parallelism) = GroupsOfLoop(tablets))
  <1>1. LoopInv /\ ByNumbers =>
            (pc = "done" /\ numTablets = Cardinality(tablets) /\ tabletSize = TabletSize
                => GroupTablets(tablets, parallelism) = GroupsOfLoop(tablets))
    <2> SUFFICES ASSUME LoopInv, ByNumbers, pc = "done", numTablets = Cardinality(tablets),
                        tabletSize = TabletSize
                 PROVE  GroupTablets(tablets, parallelism) = GroupsOfLoop(tablets)
      OBVIOUS
    <2>1. IsFiniteSet(tablets)
      BY TabletsFinite, FS_Subset
    <2>2. CASE numTablets = 0
      <3>1. tablets = {} /\ splits = <<>>
        BY <2>1, <2>2, FS_EmptySet DEF LoopInv
      <3> QED
        BY <3>1 DEF GroupTablets, GroupsOfLoop
    <2>3. CASE numTablets # 0
      <3>1. /\ Computed /\ Covered /\ groupIndex = groupCount /\ numTablets > 0
            /\ Len(splits) = groupCount /\ groupCount \in Nat
        BY <2>3 DEF LoopInv, Computed, Covered
      <3>2. tablets # {}
        BY <2>3, FS_EmptySet
      <3>3. /\ groupCount = Smaller(parallelism,
                                    (Cardinality(tablets) + TabletSize - 1) \div TabletSize)
            /\ baseSize = Cardinality(tablets) \div groupCount
            /\ largerGroups = Cardinality(tablets) % groupCount
            /\ \A i \in 1..groupCount :
                  /\ splits[i].first = (i - 1) * baseSize + Smaller(i - 1, largerGroups)
                  /\ End(splits[i]) = i * baseSize + Smaller(i, largerGroups)
        BY <3>1 DEF ByNumbers
      <3> DEFINE position(t) == Cardinality({u \in tablets : u < t})
                 first(i) == i * baseSize + Smaller(i, largerGroups)
      <3>4. GroupTablets(tablets, parallelism)
                = [i \in 1..groupCount |-> {t \in tablets : /\ position(t) >= first(i - 1)
                                                            /\ position(t) < first(i)}]
        BY <3>2, <3>3 DEF GroupTablets
      <3>5. GroupsOfLoop(tablets)
                = [i \in 1..groupCount |-> {t \in tablets : /\ position(t) >= splits[i].first
                                                            /\ position(t) < End(splits[i])}]
        BY <3>1 DEF GroupsOfLoop
      <3>6. \A i \in 1..groupCount : splits[i].first = first(i - 1) /\ End(splits[i]) = first(i)
        BY <3>3
      <3> HIDE DEF position, first
      <3> QED
        BY <3>4, <3>5, <3>6
    <2> QED
      BY <2>2, <2>3
  <1> QED
    BY <1>1, LoopInvariance, LoopByNumbers, PTL
=============================================================================
